---------------------------- MODULE Spec2Model ----------------------------
(***************************************************************************)
(* A model of sql-to-prisma: SQLParser.parseSQL (src/src/services/         *)
(* sql-parser.ts) followed by PrismaGenerator.generatePrismaSchema         *)
(* (src/src/services/prisma-generator.ts).                                 *)
(*                                                                         *)
(* Texts are TLA+ strings and are handled character by character, as the   *)
(* JavaScript string methods and regular expressions of the source handle  *)
(* them.  Positions are 1-based; 0 stands for JavaScript's -1 / no match.  *)
(* The empty string stands for an undefined optional string (the source    *)
(* only ever tests such fields for truthiness).                            *)
(*                                                                         *)
(* A value that the source keeps in a local constant is the parameter of   *)
(* an operator here: the operator is applied to the expression the source  *)
(* initialises the constant with.                                          *)
(***************************************************************************)
EXTENDS Integers, Sequences, FiniteSets, TLC

(***************************************************************************)
(* Characters and JavaScript string primitives                             *)
(***************************************************************************)
LowerLetters == "abcdefghijklmnopqrstuvwxyz"
UpperLetters == "ABCDEFGHIJKLMNOPQRSTUVWXYZ"
DigitChars == "0123456789"

\* s.charAt(i - 1): the empty text where s has no character
Char(s, i) == IF 1 <= i /\ i <= Len(s) THEN SubSeq(s, i, i) ELSE ""

\* s.slice(a - 1, b): the characters at the positions a..b that exist
Slice(s, a, b) ==
  SubSeq(s, IF a < 1 THEN 1 ELSE a, IF b > Len(s) THEN Len(s) ELSE b)

CharsOf(s) == {Char(s, i) : i \in 1..Len(s)}

LowerSet == CharsOf(LowerLetters)
UpperSet == CharsOf(UpperLetters)
DigitSet == CharsOf(DigitChars)

\* the class \w of a JavaScript regular expression
WordChars == LowerSet \cup UpperSet \cup DigitSet \cup {"_"}

\* the class \s, restricted to the white space the documents use
SpaceChars == {" ", "\n", "\t", "\r"}

UpperOf == [c \in LowerSet |->
              Char(UpperLetters, CHOOSE i \in 1..26 : Char(LowerLetters, i) = c)]
LowerOf == [c \in UpperSet |->
              Char(LowerLetters, CHOOSE i \in 1..26 : Char(UpperLetters, i) = c)]

UpperChar(c) == IF c \in LowerSet THEN UpperOf[c] ELSE c
LowerChar(c) == IF c \in UpperSet THEN LowerOf[c] ELSE c

\* Recursion over a text is by halves: a text of n characters takes about
\* log n nested evaluations.

\* the first position in lo..hi satisfying Test, or 0
FirstIn(lo, hi, Test(_)) ==
  LET RECURSIVE F(_, _)
      RECURSIVE G(_, _, _)
      F(a, b) ==
        IF a > b THEN 0
        ELSE IF a = b THEN (IF Test(a) THEN a ELSE 0)
        ELSE G(a, b, F(a, (a + b) \div 2))
      G(a, b, left) == IF left # 0 THEN left ELSE F(((a + b) \div 2) + 1, b)
  IN  F(lo, hi)

\* the last position in lo..hi satisfying Test, or 0
LastIn(lo, hi, Test(_)) ==
  LET RECURSIVE F(_, _)
      RECURSIVE G(_, _, _)
      F(a, b) ==
        IF a > b THEN 0
        ELSE IF a = b THEN (IF Test(a) THEN a ELSE 0)
        ELSE G(a, b, F(((a + b) \div 2) + 1, b))
      G(a, b, right) == IF right # 0 THEN right ELSE F(a, (a + b) \div 2)
  IN  F(lo, hi)

\* Piece(lo) \o ... \o Piece(hi)
ConcatMap(lo, hi, Piece(_)) ==
  LET RECURSIVE C(_, _)
      C(a, b) ==
        IF a > b THEN ""
        ELSE IF a = b THEN Piece(a)
        ELSE C(a, (a + b) \div 2) \o C(((a + b) \div 2) + 1, b)
  IN  C(lo, hi)

toUpperCase(s) == ConcatMap(1, Len(s), LAMBDA i : UpperChar(Char(s, i)))
toLowerCase(s) == ConcatMap(1, Len(s), LAMBDA i : LowerChar(Char(s, i)))

\* s.slice(i - 1): the text from position i on
From(s, i) == Slice(s, i, Len(s))

\* whether lit stands in s at position i
LitAt(s, i, lit) ==
  /\ i >= 1
  /\ i + Len(lit) - 1 <= Len(s)
  /\ SubSeq(s, i, i + Len(lit) - 1) = lit

startsWith(s, lit) == LitAt(s, 1, lit)
endsWith(s, lit) == LitAt(s, Len(s) - Len(lit) + 1, lit)

\* s.indexOf(lit, from - 1) + 1: the first position >= from where lit stands
indexOf(s, lit, from) ==
  FirstIn(from, Len(s) - Len(lit) + 1, LAMBDA p : LitAt(s, p, lit))

includes(s, lit) == indexOf(s, lit, 1) # 0

\* p if p is a position, else the position after the text
OrEnd(s, p) == IF p = 0 THEN Len(s) + 1 ELSE p

\* the first position >= i whose character is not in set (Len(s) + 1 if none):
\* where a greedy [set]* started at i ends
SpanIn(s, i, set) == OrEnd(s, FirstIn(i, Len(s), LAMBDA p : Char(s, p) \notin set))

\* where a greedy [^set]* started at i ends
SpanNotIn(s, i, set) == OrEnd(s, FirstIn(i, Len(s), LAMBDA p : Char(s, p) \in set))

trimStart(s) == From(s, SpanIn(s, 1, SpaceChars))
trimEnd(s) == Slice(s, 1, LastIn(1, Len(s), LAMBDA p : Char(s, p) \notin SpaceChars))
trim(s) == trimStart(trimEnd(s))

\* s.split(sep) for a one-character separator: empty pieces are kept
RECURSIVE split(_, _)
RECURSIVE SplitAt(_, _, _)
split(s, sep) == SplitAt(s, sep, indexOf(s, sep, 1))
SplitAt(s, sep, p) ==
  IF p = 0 THEN <<s>>
  ELSE <<Slice(s, 1, p - 1)>> \o split(From(s, p + 1), sep)

\* pieces.join(sep)
join(pieces, sep) ==
  ConcatMap(1, Len(pieces), LAMBDA i : IF i = 1 THEN pieces[i] ELSE sep \o pieces[i])

\* String(n) for a natural number n
RECURSIVE NumberToString(_)
NumberToString(n) ==
  IF n < 10 THEN Char(DigitChars, n + 1)
  ELSE NumberToString(n \div 10) \o Char(DigitChars, (n % 10) + 1)

\* parseInt(digits) for a text of decimal digits
RECURSIVE parseInt(_)
parseInt(digits) ==
  IF digits = "" THEN 0
  ELSE parseInt(Slice(digits, 1, Len(digits) - 1)) * 10
       + (indexOf(DigitChars, Char(digits, Len(digits)), 1) - 1)

\* s.replace(/_id$/i, "")
StripIdSuffix(s) ==
  IF toUpperCase(Slice(s, Len(s) - 2, Len(s))) = "_ID" /\ Len(s) >= 3
  THEN Slice(s, 1, Len(s) - 3) ELSE s

\* seq.map(Op)
MapSeq(seq, Op(_)) == [i \in 1..Len(seq) |-> Op(seq[i])]

\* seq.findIndex(Test) + 1
FindIndex(seq, Test(_)) == FirstIn(1, Len(seq), LAMBDA i : Test(seq[i]))

(***************************************************************************)
(* Regular expressions.  A pattern is a sequence of pieces, matched one    *)
(* after the other from a position; the regular expressions of the source  *)
(* are such that each piece has one way to match (a greedy repetition is   *)
(* never given back).  An expression with optional groups is the sequence  *)
(* of its alternatives, the one the backtracking tries first standing      *)
(* first.  Literals are matched under the i flag.                          *)
(***************************************************************************)
Piece(kind, text, cap) == [kind |-> kind, text |-> text, cap |-> cap]

\* a literal, given in upper case
Lit(text) == Piece("lit", text, "")
\* \s* and \s+
Sp0 == Piece("sp0", "", "")
Sp1 == Piece("sp1", "", "")
\* (\w+) and (\d+)
Word(cap) == Piece("word", "", cap)
Digits(cap) == Piece("digits", "", cap)
\* (?:"([^"]+)"|(\w+)): the group that took part is the capture
Ident(cap) == Piece("ident", "", cap)
\* \(\s*([^)]+)\s*\)
List(cap) == Piece("list", "", cap)
\* '([^']*)'
Quote(cap) == Piece("quote", "", cap)
\* ((?:\([^)]*(?:\([^)]*\)[^)]*)*\)(?:::\w+)?)|(?:[^,\s]+))
DefaultValue(cap) == Piece("default", "", cap)

\* e if the piece took at least one character, else 0
More(p, e) == IF e > p THEN e ELSE 0

\* the position after a closing character found at q, when at least min
\* characters stand between it and the opening one at p
Closed(p, q, min) == IF q # 0 /\ q - p - 1 >= min THEN q + 1 ELSE 0

\* (?:::\w+)? at e
CastEnd(s, e) ==
  IF LitAt(s, e, "::") /\ Char(s, e + 2) \in WordChars
  THEN SpanIn(s, e + 2, WordChars) ELSE e

\* the parenthesised alternative of a default value ends at the first closing
\* parenthesis: [^)]* stops before it, where the inner group cannot start
ParenthesisedEnd(s, e) == IF e = 0 THEN 0 ELSE CastEnd(s, e)

\* the position after the piece matched at p, or 0
PieceEnd(s, upper, p, piece) ==
  CASE piece.kind = "lit" ->
         IF LitAt(upper, p, piece.text) THEN p + Len(piece.text) ELSE 0
    [] piece.kind = "sp0" -> SpanIn(s, p, SpaceChars)
    [] piece.kind = "sp1" -> More(p, SpanIn(s, p, SpaceChars))
    [] piece.kind = "word" -> More(p, SpanIn(s, p, WordChars))
    [] piece.kind = "digits" -> More(p, SpanIn(s, p, DigitSet))
    [] piece.kind = "ident" ->
         IF Char(s, p) = "\"" THEN Closed(p, indexOf(s, "\"", p + 1), 1)
         ELSE More(p, SpanIn(s, p, WordChars))
    [] piece.kind = "list" ->
         IF Char(s, p) = "(" THEN Closed(p, indexOf(s, ")", p + 1), 1) ELSE 0
    [] piece.kind = "quote" ->
         IF Char(s, p) = "'" THEN Closed(p, indexOf(s, "'", p + 1), 0) ELSE 0
    [] piece.kind = "default" ->
         IF Char(s, p) = "(" /\ indexOf(s, ")", p + 1) # 0
         THEN ParenthesisedEnd(s, Closed(p, indexOf(s, ")", p + 1), 0))
         ELSE More(p, SpanNotIn(s, p, SpaceChars \cup {","}))

\* the text of [^)]+ in \(\s*([^)]+)\s*\), inner standing between the
\* parentheses: \s* leaves it one character when inner is white space only
ListText(inner, start) ==
  IF start = "" THEN Slice(inner, Len(inner), Len(inner)) ELSE start

\* the capture of the piece matched from p to e - 1
PieceText(s, p, e, piece) ==
  CASE piece.kind = "ident" /\ Char(s, p) = "\"" -> Slice(s, p + 1, e - 2)
    [] piece.kind = "list" ->
         ListText(Slice(s, p + 1, e - 2), trimStart(Slice(s, p + 1, e - 2)))
    [] piece.kind = "quote" -> Slice(s, p + 1, e - 2)
    [] OTHER -> Slice(s, p, e - 1)

NoCaptures == [name \in {} |-> ""]
NoMatch == [ok |-> FALSE, at |-> 0, end |-> 0, caps |-> NoCaptures]

\* the pieces of pattern from the k-th on, from position p
RECURSIVE MatchFrom(_, _, _, _, _, _, _)
RECURSIVE MatchNext(_, _, _, _, _, _, _, _)
MatchFrom(s, upper, at, p, pattern, k, caps) ==
  IF k > Len(pattern) THEN [ok |-> TRUE, at |-> at, end |-> p, caps |-> caps]
  ELSE MatchNext(s, upper, at, p, pattern, k, caps, PieceEnd(s, upper, p, pattern[k]))
MatchNext(s, upper, at, p, pattern, k, caps, e) ==
  IF e = 0 THEN NoMatch
  ELSE MatchFrom(s, upper, at, e, pattern, k + 1,
                 IF pattern[k].cap = "" THEN caps
                 ELSE (pattern[k].cap :> PieceText(s, p, e, pattern[k])) @@ caps)

\* the first of the alternatives from the a-th on that matches at p
RECURSIVE MatchAt(_, _, _, _, _)
RECURSIVE MatchElse(_, _, _, _, _, _)
MatchAt(s, upper, p, alternatives, a) ==
  IF a > Len(alternatives) THEN NoMatch
  ELSE MatchElse(s, upper, p, alternatives, a,
                 MatchFrom(s, upper, p, p, alternatives[a], 1, NoCaptures))
MatchElse(s, upper, p, alternatives, a, m) ==
  IF m.ok THEN m ELSE MatchAt(s, upper, p, alternatives, a + 1)

\* s.match(expression): the match at the first position that has one
MatchFirst(s, upper, alternatives, p) ==
  IF p = 0 THEN NoMatch ELSE MatchAt(s, upper, p, alternatives, 1)
MatchUpper(s, upper, alternatives) ==
  MatchFirst(s, upper, alternatives,
             FirstIn(1, Len(s), LAMBDA p : MatchAt(s, upper, p, alternatives, 1).ok))
match(s, alternatives) == MatchUpper(s, toUpperCase(s), alternatives)

\* a capture of a match; the empty text when its group took no part
Capture(m, name) == IF name \in DOMAIN m.caps THEN m.caps[name] ELSE ""

(***************************************************************************)
(* SQLParser                                                               *)
(***************************************************************************)
LineEnds == {"\n", "\r"}

\* sql.replace(/--.*$/gm, ''): from each "--" to the end of its line
RECURSIVE StripLineComments(_)
RECURSIVE StripLineFrom(_, _)
StripLineComments(s) == StripLineFrom(s, indexOf(s, "--", 1))
StripLineFrom(s, open) ==
  IF open = 0 THEN s
  ELSE Slice(s, 1, open - 1)
       \o StripLineComments(From(s, SpanNotIn(s, open, LineEnds)))

\* .replace(/\/\*[\s\S]*?\*\//g, ''): from the first opening mark to the
\* nearest closing mark after it, again and again
RECURSIVE StripBlockComments(_)
RECURSIVE StripBlockFrom(_, _)
RECURSIVE StripBlockTo(_, _, _)
StripBlockComments(s) == StripBlockFrom(s, indexOf(s, "/*", 1))
StripBlockFrom(s, open) ==
  IF open = 0 THEN s ELSE StripBlockTo(s, open, indexOf(s, "*/", open + 2))
StripBlockTo(s, open, close) ==
  IF close = 0 THEN s
  ELSE Slice(s, 1, open - 1) \o StripBlockComments(From(s, close + 2))

\* .replace(/\s+/g, ' '): the first character of a run of white space
\* becomes a blank, the others go
NormalizeSpace(s) ==
  ConcatMap(1, Len(s), LAMBDA i :
    IF Char(s, i) \notin SpaceChars THEN Char(s, i)
    ELSE IF Char(s, i - 1) \in SpaceChars THEN "" ELSE " ")

cleanedSQL(text) ==
  trim(NormalizeSpace(StripBlockComments(StripLineComments(text))))

\* cleanedSQL.split(';').filter(stmt => stmt.trim())
Statements(text) ==
  SelectSeq(split(cleanedSQL(text), ";"), LAMBDA stmt : trim(stmt) # "")

\* parenthesesDepth when the loop of splitByCommas reaches position i
DepthAt(content, i) ==
  Cardinality({j \in 1..(i - 1) : Char(content, j) = "("})
  - Cardinality({j \in 1..(i - 1) : Char(content, j) = ")"})

\* the pieces between the commas met at depth zero, each trimmed; what
\* follows the last such comma is kept only when it is not blank
LastPart(current) == IF current # "" THEN <<current>> ELSE <<>>

RECURSIVE PartsFrom(_, _)
RECURSIVE PartsAt(_, _, _)
PartsFrom(content, from) ==
  PartsAt(content, from,
          FirstIn(from, Len(content),
                  LAMBDA i : Char(content, i) = "," /\ DepthAt(content, i) = 0))
PartsAt(content, from, cut) ==
  IF cut = 0 THEN LastPart(trim(From(content, from)))
  ELSE <<trim(Slice(content, from, cut - 1))>> \o PartsFrom(content, cut + 1)

splitByCommas(content) == PartsFrom(content, 1)

\* /^("([^"]+)"|\w+)\s+/.test(part)
startsWithColumnIdentifier(part) ==
  MatchAt(part, part, 1, <<<<Ident(""), Sp1>>>>, 1).ok

ConstraintWords(upper) ==
  \/ includes(upper, "PRIMARY KEY")
  \/ includes(upper, "FOREIGN KEY")
  \/ includes(upper, "UNIQUE")
  \/ includes(upper, "CHECK")

isConstraintDefinition(part) ==
  ConstraintWords(toUpperCase(part)) /\ ~startsWithColumnIdentifier(part)

parseIdentifier(identifier) ==
  IF startsWith(identifier, "\"") /\ endsWith(identifier, "\"")
  THEN Slice(identifier, 2, Len(identifier) - 1)
  ELSE identifier

\* text.split(',').map(col => col.trim())
TrimmedList(text) == MapSeq(split(text, ","), trim)

\* text.split(',').map(col => this.parseIdentifier(col.trim()))
IdentifierList(text) ==
  MapSeq(split(text, ","), LAMBDA col : parseIdentifier(trim(col)))

ForeignKey(columns, referencedTable, referencedColumns) ==
  [type |-> "FOREIGN KEY", columns |-> columns,
   referencedTable |-> referencedTable, referencedColumns |-> referencedColumns]

\* a primary key has no referencedTable and no referencedColumns
PrimaryKey(columns) ==
  [type |-> "PRIMARY KEY", columns |-> columns,
   referencedTable |-> "", referencedColumns |-> <<>>]

\* /(\w+)\((\d+)\)/
LengthExpression == <<<<Word("type"), Lit("("), Digits("length"), Lit(")")>>>>
\* /DEFAULT\s+(...)/i
DefaultExpression == <<<<Lit("DEFAULT"), Sp1, DefaultValue("value")>>>>
\* /REFERENCES\s+(?:"([^"]+)"|(\w+))\s*\(\s*([^)]+)\s*\)/i
ReferencesExpression ==
  <<<<Lit("REFERENCES"), Sp1, Ident("table"), Sp0, List("columns")>>>>

\* parseColumn, lines 177-193: name and remainingDef; stop is endQuote or
\* spaceIndex, start the position of the first character of the name
ColumnHeadAt(trimmed, start, stop) ==
  [ok |-> stop # 0,
   name |-> Slice(trimmed, start, stop - 1),
   remainingDef |-> trim(From(trimmed, stop + 1))]

ColumnHead(trimmed) ==
  IF startsWith(trimmed, "\"")
  THEN ColumnHeadAt(trimmed, 2, indexOf(trimmed, "\"", 2))
  ELSE ColumnHeadAt(trimmed, 1, indexOf(trimmed, " ", 1))

\* remainingDef.split(/\s+/)[0]
FirstPart(remainingDef) ==
  Slice(remainingDef, 1, SpanNotIn(remainingDef, 1, SpaceChars) - 1)

\* lines 197-206: type and length (-1: undefined)
TypeAndLength(type, lengthMatch) ==
  IF lengthMatch.ok
  THEN [type |-> Capture(lengthMatch, "type"),
        length |-> parseInt(Capture(lengthMatch, "length"))]
  ELSE [type |-> type, length |-> -1]

ColumnType(type) == TypeAndLength(type, match(type, LengthExpression))

\* line 209
IsEnumType(type, enums) ==
  \E i \in 1..Len(enums) : toLowerCase(enums[i].name) = toLowerCase(type)

\* lines 218-227
IdentityType(type, upperType, isIdentity) ==
  IF isIdentity /\ upperType = "INTEGER" THEN "SERIAL"
  ELSE IF isIdentity /\ upperType = "BIGINT" THEN "BIGSERIAL"
  ELSE type

\* a column whose flags are the clauses written, each for itself
ColumnAsWritten(name, type, length, isEnum, isPrimaryKey, upperDef, defaultMatch) ==
  [name |-> name,
   type |-> IF isEnum THEN type ELSE toUpperCase(type),
   nullable |-> ~includes(upperDef, "NOT NULL"),
   defaultValue |-> Capture(defaultMatch, "value"),
   isPrimaryKey |-> isPrimaryKey,
   isUnique |-> includes(upperDef, "UNIQUE"),
   length |-> length,
   isEnum |-> isEnum,
   comment |-> ""]

\* lines 252-261: the column returned
ColumnRecord(name, type, length, isEnum, isPrimaryKey, upperDef, defaultMatch) ==
  [name |-> name,
   type |-> IF isEnum THEN type ELSE toUpperCase(type),
   nullable |-> ~includes(upperDef, "NOT NULL") /\ ~isPrimaryKey,
   defaultValue |-> Capture(defaultMatch, "value"),
   isPrimaryKey |-> isPrimaryKey,
   isUnique |-> includes(upperDef, "UNIQUE") \/ isPrimaryKey,
   length |-> length,
   isEnum |-> isEnum,
   comment |-> ""]

ColumnOfType(name, typed, isEnum, upperDef, defaultMatch) ==
  ColumnRecord(name,
               IdentityType(typed.type, toUpperCase(typed.type),
                            \/ includes(upperDef, "GENERATED BY DEFAULT AS IDENTITY")
                            \/ includes(upperDef, "GENERATED ALWAYS AS IDENTITY")),
               typed.length, isEnum, includes(upperDef, "PRIMARY KEY"),
               upperDef, defaultMatch)

\* lines 236-250: the constraints of the table after an inline REFERENCES
WithReference(constraints, name, referencesMatch) ==
  IF referencesMatch.ok
  THEN Append(constraints,
              ForeignKey(<<name>>, Capture(referencesMatch, "table"),
                         IdentifierList(Capture(referencesMatch, "columns"))))
  ELSE constraints

ColumnNamed(columnDef, constraints, enums, name, typed) ==
  [ok |-> TRUE,
   column |-> ColumnOfType(name, typed, IsEnumType(typed.type, enums),
                           toUpperCase(columnDef), match(columnDef, DefaultExpression)),
   constraints |-> WithReference(constraints, name,
                                 match(columnDef, ReferencesExpression))]

ColumnWithHead(columnDef, constraints, enums, head) ==
  IF ~head.ok THEN [ok |-> FALSE, constraints |-> constraints]
  ELSE ColumnNamed(columnDef, constraints, enums, head.name,
                   ColumnType(FirstPart(head.remainingDef)))

\* parseColumn: ok: FALSE stands for null; constraints is table.constraints
\* after the call
parseColumn(columnDef, constraints, enums) ==
  ColumnWithHead(columnDef, constraints, enums, ColumnHead(trim(columnDef)))

\* /PRIMARY\s+KEY\s*\(\s*([^)]+)\s*\)/i
PrimaryKeyExpression == <<<<Lit("PRIMARY"), Sp1, Lit("KEY"), Sp0, List("columns")>>>>
\* /FOREIGN\s+KEY\s*\(\s*([^)]+)\s*\)\s*REFERENCES\s+(\w+)\s*\(\s*([^)]+)\s*\)/i
ForeignKeyExpression ==
  <<<<Lit("FOREIGN"), Sp1, Lit("KEY"), Sp0, List("columns"), Sp0,
      Lit("REFERENCES"), Sp1, Word("table"), Sp0, List("referenced")>>>>

ConstraintOf(upper, columnsMatch, fkMatch) ==
  IF includes(upper, "PRIMARY KEY") /\ columnsMatch.ok
  THEN [ok |-> TRUE,
        constraint |-> PrimaryKey(TrimmedList(Capture(columnsMatch, "columns")))]
  ELSE IF includes(upper, "FOREIGN KEY") /\ fkMatch.ok
  THEN [ok |-> TRUE,
        constraint |-> ForeignKey(TrimmedList(Capture(fkMatch, "columns")),
                                  Capture(fkMatch, "table"),
                                  TrimmedList(Capture(fkMatch, "referenced")))]
  ELSE [ok |-> FALSE]

\* parseConstraint: ok: FALSE stands for null
parseConstraint(constraintDef) ==
  ConstraintOf(toUpperCase(constraintDef),
               match(constraintDef, PrimaryKeyExpression),
               match(constraintDef, ForeignKeyExpression))

\* the loop of parseCreateTable over parts, from the i-th part on
RECURSIVE ParseParts(_, _, _, _, _)
RECURSIVE ParsePart(_, _, _, _, _, _)
RECURSIVE AfterConstraint(_, _, _, _, _, _)
RECURSIVE AfterColumn(_, _, _, _, _)
ParseParts(parts, i, columns, constraints, enums) ==
  IF i > Len(parts) THEN [columns |-> columns, constraints |-> constraints]
  ELSE ParsePart(parts, i, columns, constraints, enums, trim(parts[i]))
ParsePart(parts, i, columns, constraints, enums, trimmed) ==
  IF isConstraintDefinition(trimmed)
  THEN AfterConstraint(parts, i, columns, constraints, enums,
                       parseConstraint(trimmed))
  ELSE AfterColumn(parts, i, columns, enums,
                   parseColumn(trimmed, constraints, enums))
AfterConstraint(parts, i, columns, constraints, enums, constraint) ==
  ParseParts(parts, i + 1, columns,
             IF constraint.ok THEN Append(constraints, constraint.constraint)
             ELSE constraints,
             enums)
AfterColumn(parts, i, columns, enums, column) ==
  ParseParts(parts, i + 1,
             IF column.ok THEN Append(columns, column.column) ELSE columns,
             column.constraints, enums)

\* /CREATE\s+TABLE\s+(?:"([^"]+)"|(\w+))\s*\(/i
CreateTableExpression ==
  <<<<Lit("CREATE"), Sp1, Lit("TABLE"), Sp1, Ident("name"), Sp0, Lit("(")>>>>

TableOf(tableName, body) ==
  [ok |-> TRUE,
   table |-> [name |-> tableName, columns |-> body.columns,
              constraints |-> body.constraints, indexes |-> <<>>, comment |-> ""]]

\* contentMatch, /\(([\s\S]*)\)/: from the first opening parenthesis to the
\* last closing one
TableWithContent(statement, enums, tableNameMatch, open, close) ==
  IF ~tableNameMatch.ok \/ open = 0 \/ close < open THEN [ok |-> FALSE]
  ELSE TableOf(Capture(tableNameMatch, "name"),
               ParseParts(splitByCommas(Slice(statement, open + 1, close - 1)),
                          1, <<>>, <<>>, enums))

\* parseCreateTable: ok: FALSE stands for null
parseCreateTable(statement, enums) ==
  TableWithContent(statement, enums, match(statement, CreateTableExpression),
                   indexOf(statement, "(", 1),
                   LastIn(1, Len(statement), LAMBDA i : Char(statement, i) = ")"))

\* tables.find(t => t.name === name): its index, or 0
FindTable(tables, name) == FirstIn(1, Len(tables), LAMBDA i : tables[i].name = name)

\* \(\s*(?:"([^"]+)"|(\w+))\s*\)
OneIdent(cap) == <<Lit("("), Sp0, Ident(cap), Sp0, Lit(")")>>

\* the expression of parseAlterTableForeignKey, with and without its group
\* (?:CONSTRAINT\s+(?:"[^"]+"|[\w]+)\s+)?
AlterExpressionWith(constraintName) ==
  <<Lit("ALTER"), Sp1, Lit("TABLE"), Sp1, Ident("table"), Sp1, Lit("ADD"), Sp1>>
  \o constraintName
  \o <<Lit("FOREIGN"), Sp1, Lit("KEY"), Sp0>> \o OneIdent("column")
  \o <<Sp1, Lit("REFERENCES"), Sp1, Ident("referencedTable"), Sp0>>
  \o OneIdent("referencedColumn")

AlterExpression ==
  <<AlterExpressionWith(<<Lit("CONSTRAINT"), Sp1, Ident(""), Sp1>>),
    AlterExpressionWith(<<>>)>>

\* foreignKeyTable.constraints.push(constraint), when the table was found
\* the push of a parser that drops the foreign keys to undeclared tables
PushDeclared(tables, foreignKeyTable, constraint) ==
  IF foreignKeyTable = 0
     \/ \A i \in 1..Len(tables) : tables[i].name # constraint.referencedTable
  THEN tables
  ELSE [tables EXCEPT ![foreignKeyTable].constraints = Append(@, constraint)]

PushConstraint(tables, foreignKeyTable, constraint) ==
  IF foreignKeyTable = 0 THEN tables
  ELSE [tables EXCEPT ![foreignKeyTable].constraints = Append(@, constraint)]

\* the constraint put on the referenced table, not on the altered one
AlterReferenced(tables, fkMatch) ==
  IF ~fkMatch.ok THEN tables
  ELSE PushConstraint(tables, FindTable(tables, Capture(fkMatch, "referencedTable")),
                      ForeignKey(<<Capture(fkMatch, "column")>>,
                                 Capture(fkMatch, "referencedTable"),
                                 <<Capture(fkMatch, "referencedColumn")>>))

AlterWith(tables, fkMatch) ==
  IF ~fkMatch.ok THEN tables
  ELSE PushConstraint(tables, FindTable(tables, Capture(fkMatch, "table")),
                      ForeignKey(<<Capture(fkMatch, "column")>>,
                                 Capture(fkMatch, "referencedTable"),
                                 <<Capture(fkMatch, "referencedColumn")>>))

\* parseAlterTableForeignKey: the tables after the call
parseAlterTableForeignKey(statement, tables) ==
  AlterWith(tables, match(statement, AlterExpression))

\* /CREATE\s+TYPE\s+(?:"([^"]+)"|(\w+))\s+AS\s+ENUM\s*\(\s*([^)]+)\s*\)/i
EnumExpression ==
  <<<<Lit("CREATE"), Sp1, Lit("TYPE"), Sp1, Ident("name"), Sp1, Lit("AS"), Sp1,
      Lit("ENUM"), Sp0, List("values")>>>>

\* a value of the list without the quotes around it
Unquoted(trimmed) ==
  IF \/ startsWith(trimmed, "'") /\ endsWith(trimmed, "'")
     \/ startsWith(trimmed, "\"") /\ endsWith(trimmed, "\"")
  THEN Slice(trimmed, 2, Len(trimmed) - 1)
  ELSE trimmed

EnumValue(value) == Unquoted(trim(value))

EnumOf(enumMatch) ==
  IF ~enumMatch.ok THEN [ok |-> FALSE]
  ELSE [ok |-> TRUE,
        enum |-> [name |-> Capture(enumMatch, "name"),
                  values |-> SelectSeq(MapSeq(split(Capture(enumMatch, "values"), ","),
                                              EnumValue),
                                       LAMBDA value : Len(value) > 0)]]

\* parseCreateEnum: ok: FALSE stands for null
parseCreateEnum(statement) == EnumOf(match(statement, EnumExpression))

\* the expression of parseCreateIndex with given optional groups: (UNIQUE\s+)?,
\* (?:(?:"([^"]+)"|(\w+))\s+)? and (?:\s+USING\s+(\w+))?
IndexExpressionWith(unique, indexName, using) ==
  <<Lit("CREATE"), Sp1>> \o unique \o <<Lit("INDEX"), Sp1>> \o indexName
  \o <<Lit("ON"), Sp1, Ident("table")>> \o using \o <<Sp0, List("columns")>>

UniqueGroup == <<Piece("lit", "UNIQUE", "unique"), Sp1>>
IndexNameGroup == <<Ident("name"), Sp1>>
UsingGroup == <<Sp1, Lit("USING"), Sp1, Word("using")>>

\* each group is tried present before absent, the earlier group varying last
IndexExpression ==
  <<IndexExpressionWith(UniqueGroup, IndexNameGroup, UsingGroup),
    IndexExpressionWith(UniqueGroup, IndexNameGroup, <<>>),
    IndexExpressionWith(UniqueGroup, <<>>, UsingGroup),
    IndexExpressionWith(UniqueGroup, <<>>, <<>>),
    IndexExpressionWith(<<>>, IndexNameGroup, UsingGroup),
    IndexExpressionWith(<<>>, IndexNameGroup, <<>>),
    IndexExpressionWith(<<>>, <<>>, UsingGroup),
    IndexExpressionWith(<<>>, <<>>, <<>>)>>

\* trimmed.replace(/\s+(DESC|ASC)$/i, ''), word being the final keyword met
WithoutWord(trimmed, before) ==
  IF Char(trimmed, before) \in SpaceChars THEN trimEnd(Slice(trimmed, 1, before))
  ELSE trimmed

WithoutOrder(trimmed, upper) ==
  IF endsWith(upper, "DESC") THEN WithoutWord(trimmed, Len(trimmed) - 4)
  ELSE IF endsWith(upper, "ASC") THEN WithoutWord(trimmed, Len(trimmed) - 3)
  ELSE trimmed

IndexColumnOf(trimmed) == parseIdentifier(WithoutOrder(trimmed, toUpperCase(trimmed)))
IndexColumn(col) == IndexColumnOf(trim(col))

\* table.indexes.push(index), when the table was found
PushIndex(tables, table, index) ==
  IF table = 0 THEN tables
  ELSE [tables EXCEPT ![table].indexes = Append(@, index)]

IndexWith(tables, indexMatch) ==
  IF ~indexMatch.ok THEN tables
  ELSE PushIndex(tables, FindTable(tables, Capture(indexMatch, "table")),
                 [name |-> Capture(indexMatch, "name"),
                  columns |-> SelectSeq(MapSeq(split(Capture(indexMatch, "columns"), ","),
                                               IndexColumn),
                                        LAMBDA col : Len(col) > 0),
                  unique |-> Capture(indexMatch, "unique") # "",
                  using |-> Capture(indexMatch, "using")])

\* parseCreateIndex: the tables after the call
parseCreateIndex(statement, tables) == IndexWith(tables, match(statement, IndexExpression))

\* /COMMENT\s+ON\s+TABLE\s+(?:"([^"]+)"|(\w+))\s+IS\s+'([^']*)'/i
TableCommentExpression ==
  <<<<Lit("COMMENT"), Sp1, Lit("ON"), Sp1, Lit("TABLE"), Sp1, Ident("table"), Sp1,
      Lit("IS"), Sp1, Quote("comment")>>>>
\* /COMMENT\s+ON\s+COLUMN\s+(?:"([^"]+)"|(\w+))\.(?:"([^"]+)"|(\w+))\s+IS\s+'([^']*)'/i
ColumnCommentExpression ==
  <<<<Lit("COMMENT"), Sp1, Lit("ON"), Sp1, Lit("COLUMN"), Sp1, Ident("table"),
      Lit("."), Ident("column"), Sp1, Lit("IS"), Sp1, Quote("comment")>>>>

SetTableComment(tables, table, comment) ==
  IF table = 0 THEN tables ELSE [tables EXCEPT ![table].comment = comment]

SetCommentAt(tables, table, column, comment) ==
  IF column = 0 THEN tables
  ELSE [tables EXCEPT ![table].columns[column].comment = comment]

SetColumnComment(tables, table, columnName, comment) ==
  IF table = 0 THEN tables
  ELSE SetCommentAt(tables, table,
                    FirstIn(1, Len(tables[table].columns),
                            LAMBDA i : tables[table].columns[i].name = columnName),
                    comment)

CommentWith(tables, tableCommentMatch, columnCommentMatch) ==
  IF tableCommentMatch.ok
  THEN SetTableComment(tables, FindTable(tables, Capture(tableCommentMatch, "table")),
                       Capture(tableCommentMatch, "comment"))
  ELSE IF columnCommentMatch.ok
  THEN SetColumnComment(tables,
                        FindTable(tables, Capture(columnCommentMatch, "table")),
                        Capture(columnCommentMatch, "column"),
                        Capture(columnCommentMatch, "comment"))
  ELSE tables

\* parseComment: the tables after the call
parseComment(statement, tables) ==
  CommentWith(tables, match(statement, TableCommentExpression),
              match(statement, ColumnCommentExpression))

(***************************************************************************)
(* PrismaGenerator: case conversion and naming                             *)
(***************************************************************************)
\* word.charAt(0).toUpperCase() + word.slice(1).toLowerCase()
PascalWord(word) == UpperChar(Char(word, 1)) \o toLowerCase(From(word, 2))

toPascalCase(str) == join(MapSeq(split(str, "_"), PascalWord), "")

\* pascal.charAt(0).toLowerCase() + pascal.slice(1)
LowerFirst(pascal) == LowerChar(Char(pascal, 1)) \o From(pascal, 2)

toCamelCase(str) == LowerFirst(toPascalCase(str))

\* sqlName.replace(/["`']/g, "")
WithoutQuotes(sqlName) ==
  ConcatMap(1, Len(sqlName),
            LAMBDA i : IF Char(sqlName, i) \in {"\"", "`", "'"} THEN ""
                       ELSE Char(sqlName, i))

EnumSuffixes ==
  {"_status", "_type", "_state", "_category", "_level", "_role", "_kind"}
EnumPrefixes == {"status", "type", "state", "category", "level", "role", "kind"}

\* isLikelyEnum of sqlToPrismaName
isLikelyEnum(lowerName) ==
  \/ \E suffix \in EnumSuffixes : endsWith(lowerName, suffix)
  \/ \E prefix \in EnumPrefixes : startsWith(lowerName, prefix)

\* the singular of sqlToPrismaName
Singular(result) ==
  IF endsWith(result, "ies") THEN Slice(result, 1, Len(result) - 3) \o "y"
  ELSE IF endsWith(result, "es") /\ ~endsWith(result, "ses")
  THEN Slice(result, 1, Len(result) - 2)
  ELSE IF endsWith(result, "s") /\ ~endsWith(result, "ss")
  THEN Slice(result, 1, Len(result) - 1)
  ELSE result

SingularUnlessEnum(cleanName, result) ==
  IF isLikelyEnum(toLowerCase(cleanName)) THEN result ELSE Singular(result)

\* sqlToPrismaName of the converter page: the model name the page looks for
sqlToPrismaName(sqlName) ==
  SingularUnlessEnum(WithoutQuotes(sqlName), toPascalCase(WithoutQuotes(sqlName)))

Vowels == {"a", "e", "i", "o", "u"}

\* a plural made without looking at the end of the word
SuffixedPlural(word, lower) == word \o "s"

PluralOf(word, lower) ==
  IF endsWith(lower, "s") THEN word
  ELSE IF \/ endsWith(lower, "sh")
          \/ endsWith(lower, "ch")
          \/ endsWith(lower, "x")
          \/ endsWith(lower, "z")
    THEN word \o "es"
  ELSE IF endsWith(lower, "y") /\ Char(lower, Len(lower) - 1) \notin Vowels
    THEN Slice(word, 1, Len(word) - 1) \o "ies"
  ELSE word \o "s"

pluralize(word) == PluralOf(word, toLowerCase(word))

ContextOf(parts) == IF Len(parts) = 1 THEN parts[1] ELSE join(parts, "_")

extractForeignKeyContext(fkColumn) ==
  ContextOf(SelectSeq(split(StripIdSuffix(fkColumn), "_"), LAMBDA part : part # ""))

shouldIncludeContext(fkContext, tableName) ==
  /\ toLowerCase(fkContext) # "id"
  /\ toLowerCase(fkContext) # toLowerCase(tableName)

\* a field name made from the column alone
ContextFieldName(fkColumn, targetTable) == toCamelCase(StripIdSuffix(fkColumn))

FieldNameOfBase(columnBase, targetTable) ==
  IF toLowerCase(columnBase) = toLowerCase(targetTable)
  THEN toCamelCase(targetTable)
  ELSE toCamelCase(columnBase)

extractRelationFieldName(fkColumn, targetTable) ==
  IF toLowerCase(fkColumn) = "id" THEN toCamelCase(targetTable)
  ELSE FieldNameOfBase(StripIdSuffix(fkColumn), targetTable)

NamingColumnAt(constraint, idIndex) ==
  IF idIndex # 0 /\ idIndex <= Len(constraint.columns)
  THEN constraint.columns[idIndex]
  ELSE constraint.columns[Len(constraint.columns)]

\* the naming column before composite keys were handled: columns[0]
FirstColumn(constraint) == constraint.columns[1]

\* the parser gives every foreign key its referencedColumns
selectNamingColumn(constraint) ==
  IF Len(constraint.columns) = 1 THEN constraint.columns[1]
  ELSE NamingColumnAt(constraint,
                      FindIndex(constraint.referencedColumns,
                                LAMBDA col : toLowerCase(col) = "id"))

\* baseName of generateDescriptiveRelationName
BaseNameWith(fromTable, toTable, fkContext) ==
  toPascalCase(fromTable) \o "To" \o toPascalCase(toTable)
  \o (IF shouldIncludeContext(fkContext, fromTable)
      THEN "_" \o toPascalCase(fkContext) ELSE "")

RelationBaseName(fromTable, toTable, fkColumn) ==
  BaseNameWith(fromTable, toTable, extractForeignKeyContext(fkColumn))

\* generateDescriptiveRelationName without its while loop
FirstRelationName(baseName, uniqueName, counter, usedNames) == uniqueName

\* a suffix that counts the identifiers used instead of trying 2, 3, ...
UsedCountSuffix(baseName, uniqueName, counter, usedNames) ==
  IF uniqueName \in usedNames
  THEN baseName \o "_" \o NumberToString(Cardinality(usedNames) + 1)
  ELSE uniqueName

\* the while loop of generateDescriptiveRelationName
RECURSIVE RelationNameLoop(_, _, _, _)
RelationNameLoop(baseName, uniqueName, counter, usedNames) ==
  IF uniqueName \in usedNames
  THEN RelationNameLoop(baseName, baseName \o "_" \o NumberToString(counter),
                        counter + 1, usedNames)
  ELSE uniqueName

\* an identifier numbered by the identifiers generated before it
CountedRelationName(baseName, usedNames) ==
  baseName \o "_" \o NumberToString(Cardinality(usedNames) + 1)

UniqueRelationName(baseName, usedNames) ==
  RelationNameLoop(baseName, baseName, 2, usedNames)

\* the identifier returned; the caller's set becomes usedNames \cup {it}
generateDescriptiveRelationName(fromTable, toTable, fkColumn, usedNames) ==
  UniqueRelationName(RelationBaseName(fromTable, toTable, fkColumn), usedNames)

\* new Set(model.fields.map((f) => f.name))
FieldNames(model) == {model.fields[i].name : i \in 1..Len(model.fields)}

\* the while loop of ensureUniqueFieldName
RECURSIVE FieldNameLoop(_, _, _, _)
FieldNameLoop(lastResort, uniqueName, counter, existingNames) ==
  IF uniqueName \in existingNames
  THEN FieldNameLoop(lastResort, lastResort \o NumberToString(counter),
                     counter + 1, existingNames)
  ELSE uniqueName

\* ensureUniqueFieldName with the counter as its only strategy
NumberedUnique(existingNames, baseName, fullContext, withSourcePrefix, fullColumnName, lastResort) ==
  IF baseName \notin existingNames THEN baseName
  ELSE FieldNameLoop(lastResort, lastResort \o NumberToString(2), 2, existingNames)

\* the strategies with the prefix of the source table tried first
PrefixFirst(existingNames, baseName, fullContext, withSourcePrefix, fullColumnName, lastResort) ==
  IF baseName \notin existingNames THEN baseName
  ELSE IF withSourcePrefix \notin existingNames THEN withSourcePrefix
  ELSE IF fullContext # baseName /\ fullContext \notin existingNames
    THEN fullContext
  ELSE IF fullColumnName \notin existingNames THEN fullColumnName
  ELSE IF lastResort \notin existingNames THEN lastResort
  ELSE FieldNameLoop(lastResort, lastResort \o NumberToString(2), 2, existingNames)

\* the strategies of ensureUniqueFieldName, in the order they are tried
FirstUnique(existingNames, baseName, fullContext, withSourcePrefix, fullColumnName, lastResort) ==
  IF baseName \notin existingNames THEN baseName
  ELSE IF fullContext # baseName /\ fullContext \notin existingNames
    THEN fullContext
  ELSE IF withSourcePrefix \notin existingNames THEN withSourcePrefix
  ELSE IF fullColumnName \notin existingNames THEN fullColumnName
  ELSE IF lastResort \notin existingNames THEN lastResort
  ELSE FieldNameLoop(lastResort, lastResort \o NumberToString(2), 2, existingNames)

UniqueAmong(existingNames, baseName, fkColumn, sourceTable) ==
  FirstUnique(existingNames, baseName,
              toCamelCase(StripIdSuffix(fkColumn)),
              toCamelCase(sourceTable) \o toPascalCase(baseName),
              toCamelCase(fkColumn),
              toCamelCase(sourceTable \o "_" \o StripIdSuffix(fkColumn)))

\* ensureUniqueFieldName without its strategies
BaseFieldName(baseName, model, fkColumn, sourceTable) == baseName

ensureUniqueFieldName(baseName, model, fkColumn, sourceTable) ==
  UniqueAmong(FieldNames(model), baseName, fkColumn, sourceTable)

(***************************************************************************)
(* PrismaGenerator: models and fields                                      *)
(***************************************************************************)
PrismaEnumOf(enumDef) ==
  [name |-> toPascalCase(enumDef.name), values |-> enumDef.values]

convertEnumsToPrismaEnums(enums) == MapSeq(enums, PrismaEnumOf)

IntTypes == {"SERIAL", "BIGSERIAL", "INTEGER", "INT", "BIGINT"}
StringTypes == {"VARCHAR", "TEXT", "CHAR", "UUID"}
BooleanTypes == {"BOOLEAN", "BOOL"}
DateTimeTypes == {"TIMESTAMP", "TIMESTAMPTZ", "DATE", "TIME"}
FloatTypes == {"DECIMAL", "NUMERIC", "FLOAT", "DOUBLE", "REAL"}
JsonTypes == {"JSON", "JSONB"}

\* the switch of mapSQLTypeToPrismaType
ScalarType(type) ==
  IF type \in IntTypes THEN "Int"
  ELSE IF type \in StringTypes THEN "String"
  ELSE IF type \in BooleanTypes THEN "Boolean"
  ELSE IF type \in DateTimeTypes THEN "DateTime"
  ELSE IF type \in FloatTypes THEN "Float"
  ELSE IF type \in JsonTypes THEN "Json"
  ELSE "String"

TypeNamed(sqlType, expectedEnumName, enums) ==
  IF \E i \in 1..Len(enums) : enums[i].name = expectedEnumName
  THEN expectedEnumName
  ELSE ScalarType(toUpperCase(sqlType))

mapSQLTypeToPrismaType(sqlType, enums) ==
  TypeNamed(sqlType, toPascalCase(sqlType), enums)

\* Number(text) of a text without white space is a number, not NaN: a
\* decimal literal (sign, digits, fraction, exponent), Infinity, or a 0x,
\* 0o, 0b literal
AllIn(text, set) == text # "" /\ \A i \in 1..Len(text) : Char(text, i) \in set

Unsigned(text) == IF Char(text, 1) \in {"+", "-"} THEN From(text, 2) ELSE text

MantissaAt(mantissa, dot) ==
  AllIn(IF dot = 0 THEN mantissa
        ELSE Slice(mantissa, 1, dot - 1) \o From(mantissa, dot + 1), DigitSet)

IsMantissa(mantissa) == MantissaAt(mantissa, indexOf(mantissa, ".", 1))

DecimalAt(body, expAt) ==
  IF expAt = 0 THEN IsMantissa(body)
  ELSE /\ IsMantissa(Slice(body, 1, expAt - 1))
       /\ AllIn(Unsigned(From(body, expAt + 1)), DigitSet)

IsDecimal(body) ==
  \/ body = "Infinity"
  \/ DecimalAt(body, FirstIn(1, Len(body), LAMBDA i : Char(body, i) \in {"e", "E"}))

IsRadix(prefix, digits) ==
  \/ prefix = "0x" /\ AllIn(toLowerCase(digits), DigitSet \cup CharsOf("abcdef"))
  \/ prefix = "0o" /\ AllIn(digits, CharsOf("01234567"))
  \/ prefix = "0b" /\ AllIn(digits, {"0", "1"})

IsNumeric(text) ==
  \/ IsDecimal(Unsigned(text))
  \/ IsRadix(toLowerCase(Slice(text, 1, 2)), From(text, 3))

\* defaultValue.replace(/^\(|\)$/g, "")
CleanedValue(defaultValue) ==
  Slice(defaultValue,
        IF startsWith(defaultValue, "(") THEN 2 ELSE 1,
        IF endsWith(defaultValue, ")") THEN Len(defaultValue) - 1
        ELSE Len(defaultValue))

DefaultWith(defaultValue, upperDefault) ==
  IF upperDefault \in {"CURRENT_TIMESTAMP", "NOW()", "(NOW())"}
  THEN "@default(now())"
  ELSE IF includes(defaultValue, "gen_random_uuid")
    THEN "@default(dbgenerated(\"gen_random_uuid()\"))"
  ELSE IF defaultValue \in {"true", "false"}
    THEN "@default(" \o defaultValue \o ")"
  ELSE IF IsNumeric(defaultValue)
    THEN "@default(" \o defaultValue \o ")"
  ELSE IF includes(upperDefault, "NOW()") \/ includes(upperDefault, "CURRENT_TIMESTAMP")
    THEN "@default(now())"
  ELSE IF includes(defaultValue, "::json") \/ includes(defaultValue, "::jsonb")
    THEN "@default(dbgenerated(\"" \o CleanedValue(defaultValue) \o "\"))"
  ELSE "@default(\"" \o defaultValue \o "\")"

\* the @default attribute of a column that is no primary key
DefaultAttribute(defaultValue) == DefaultWith(defaultValue, toUpperCase(defaultValue))

IdAttribute(column) ==
  IF ~column.isPrimaryKey THEN <<>>
  ELSE IF column.type \in {"SERIAL", "BIGSERIAL"}
    THEN <<"@id @default(autoincrement())">>
  ELSE IF column.type = "UUID" /\ includes(column.defaultValue, "gen_random_uuid")
    THEN <<"@id @default(dbgenerated(\"gen_random_uuid()\"))">>
  ELSE <<"@id">>

ValueAttributes(column) ==
  (IF column.isUnique /\ ~column.isPrimaryKey THEN <<"@unique">> ELSE <<>>)
  \o (IF column.defaultValue # "" /\ ~column.isPrimaryKey
      THEN <<DefaultAttribute(column.defaultValue)>> ELSE <<>>)
  \o (IF includes(column.type, "TIMESTAMP")
         /\ includes(toLowerCase(column.name), "updated")
      THEN <<"@updatedAt">> ELSE <<>>)

NativeAttributes(column) ==
  (IF column.type = "UUID" THEN <<"@db.Uuid">> ELSE <<>>)
  \o (IF column.type = "JSONB" THEN <<"@db.JsonB">>
      ELSE IF column.type = "JSON" THEN <<"@db.Json">>
      ELSE <<>>)

FieldNamed(column, enums, name) ==
  [name |-> name,
   type |-> mapSQLTypeToPrismaType(column.type, IF column.isEnum THEN enums ELSE <<>>),
   attributes |->
     IdAttribute(column) \o ValueAttributes(column)
     \o (IF column.name # name THEN <<"@map(\"" \o column.name \o "\")">> ELSE <<>>)
     \o NativeAttributes(column),
   isOptional |-> column.nullable /\ ~column.isPrimaryKey,
   isArray |-> FALSE,
   comment |-> column.comment]

convertColumnToField(column, enums) ==
  FieldNamed(column, enums, toCamelCase(column.name))

IndexAttribute(index) ==
  (IF index.unique THEN "@@unique([" ELSE "@@index([")
  \o join(MapSeq(index.columns, toCamelCase), ", ") \o "])"

ModelNamed(table, enums, modelName) ==
  [name |-> modelName,
   fields |-> MapSeq(table.columns, LAMBDA column : convertColumnToField(column, enums)),
   attributes |->
     MapSeq(table.indexes, IndexAttribute)
     \o (IF table.name # toLowerCase(modelName)
         THEN <<"@@map(\"" \o table.name \o "\")">> ELSE <<>>),
   comment |-> table.comment]

createBasicModel(table, enums) == ModelNamed(table, enums, toPascalCase(table.name))

\* table.columns.find((col) => col.name === colName)?.nullable || false
NullableAt(table, c) == c # 0 /\ table.columns[c].nullable

isRelationOptional(constraint, table) ==
  \E i \in 1..Len(constraint.columns) :
    NullableAt(table, FirstIn(1, Len(table.columns),
                              LAMBDA j : table.columns[j].name = constraint.columns[i]))

RelationAttribute(relationName, constraint) ==
  "@relation(\"" \o relationName \o "\", fields: ["
  \o join(MapSeq(constraint.columns, toCamelCase), ", ")
  \o "], references: ["
  \o join(MapSeq(constraint.referencedColumns, toCamelCase), ", ") \o "])"

\* createRelationField: the fields to push (none stands for null)
createRelationField(constraint, table, relationName, model, namingColumn) ==
  IF \/ constraint.referencedTable = ""
     \/ Len(constraint.columns) = 0
  THEN <<>>
  ELSE <<[name |-> ensureUniqueFieldName(
                     extractRelationFieldName(namingColumn, constraint.referencedTable),
                     model, namingColumn, table.name),
          type |-> toPascalCase(constraint.referencedTable),
          attributes |-> <<RelationAttribute(relationName, constraint)>>,
          isOptional |-> isRelationOptional(constraint, table),
          isArray |-> FALSE,
          comment |-> ""]>>

\* baseName of createBackRelationField
BackNameWith(tableName, fkContext) ==
  pluralize(toCamelCase(tableName))
  \o (IF shouldIncludeContext(fkContext, tableName)
      THEN toPascalCase(fkContext) ELSE "")

BackRelationBaseName(tableName, namingColumn) ==
  BackNameWith(tableName, extractForeignKeyContext(namingColumn))

\* createBackRelationField: the fields to push (none stands for null)
createBackRelationField(constraint, table, relationName, referencedModel, namingColumn) ==
  IF constraint.referencedTable = "" \/ Len(constraint.columns) = 0
  THEN <<>>
  ELSE <<[name |-> ensureUniqueFieldName(
                     BackRelationBaseName(table.name, namingColumn),
                     referencedModel, namingColumn, table.name),
          type |-> toPascalCase(table.name),
          attributes |-> <<"@relation(\"" \o relationName \o "\")">>,
          isOptional |-> FALSE,
          isArray |-> TRUE,
          comment |-> ""]>>

\* models.find((m) => m.name === name): its position, or 0
FindModel(models, name) == FirstIn(1, Len(models), LAMBDA i : models[i].name = name)

isRelationField(field) ==
  \E i \in 1..Len(field.attributes) : includes(field.attributes[i], "@relation")

\* s.padEnd(n)
padEnd(s, n) == s \o ConcatMap(1, n - Len(s), LAMBDA i : " ")

\* Math.max(...numbers); of no number it is -Infinity, which padEnd takes for
\* 0, and a model without fields has nothing to pad
MaxOf(numbers) ==
  IF numbers = <<>> THEN 0
  ELSE CHOOSE n \in {numbers[i] : i \in 1..Len(numbers)} :
         \A i \in 1..Len(numbers) : numbers[i] <= n

\* field.type + (field.isOptional ? "?" : "") + (field.isArray ? "[]" : "")
FieldType(field) ==
  field.type \o (IF field.isOptional THEN "?" ELSE "")
  \o (IF field.isArray THEN "[]" ELSE "")

\* formatModel, lines 634-651 and 658-675: the lines of one field
FieldText(comment, fieldName, fieldType, attributes) ==
  (IF comment # "" THEN "  /// " \o comment \o "\n" ELSE "")
  \o "  " \o fieldName \o " " \o fieldType
  \o (IF attributes # "" THEN " " \o attributes ELSE "") \o "\n"

FieldLines(field, maxFieldLength, maxTypeLength) ==
  FieldText(field.comment, padEnd(field.name, maxFieldLength),
            padEnd(FieldType(field), maxTypeLength), join(field.attributes, " "))

FieldsText(fields, maxFieldLength, maxTypeLength) ==
  ConcatMap(1, Len(fields),
            LAMBDA i : FieldLines(fields[i], maxFieldLength, maxTypeLength))

\* the text of a model with the attributes of the model before its fields
\* and the relation fields before the other ones
AttributesFirst(model, scalarFields, relationFields, maxFieldLength, maxTypeLength) ==
  "model " \o model.name \o " {\n"
  \o ConcatMap(1, Len(model.attributes),
               LAMBDA i : "  " \o model.attributes[i] \o "\n")
  \o FieldsText(relationFields, maxFieldLength, maxTypeLength)
  \o FieldsText(scalarFields, maxFieldLength, maxTypeLength)
  \o "}"

ModelText(model, scalarFields, relationFields, maxFieldLength, maxTypeLength) ==
  (IF model.comment # "" THEN "/// " \o model.comment \o "\n" ELSE "")
  \o "model " \o model.name \o " {\n"
  \o FieldsText(scalarFields, maxFieldLength, maxTypeLength)
  \o (IF relationFields # <<>>
      THEN "\n  // Relations\n"
           \o FieldsText(relationFields, maxFieldLength, maxTypeLength)
      ELSE "")
  \o (IF model.attributes # <<>>
      THEN "\n" \o ConcatMap(1, Len(model.attributes),
                             LAMBDA i : "  " \o model.attributes[i] \o "\n")
      ELSE "")
  \o "}"

formatModel(model) ==
  ModelText(model,
            SelectSeq(model.fields, LAMBDA field : ~isRelationField(field)),
            SelectSeq(model.fields, isRelationField),
            MaxOf(MapSeq(model.fields, LAMBDA field : Len(field.name))),
            MaxOf(MapSeq(model.fields, LAMBDA field : Len(FieldType(field)))))

formatEnum(enumDef) ==
  "enum " \o enumDef.name \o " {\n"
  \o join(MapSeq(enumDef.values, LAMBDA value : "  " \o value), "\n") \o "\n}"

\* generatePrismaSchema, lines 15-25
Header ==
  "// Generated Prisma schema\ngenerator client {\n"
  \o "  provider = \"prisma-client-js\"\n}\n\n"
  \o "datasource db {\n  provider = \"postgresql\"\n"
  \o "  url      = env(\"DATABASE_URL\")\n}\n\n"

\* generatePrismaSchema, lines 15-35: the text of the enums and the models
SchemaText(prismaEnums, modelList) ==
  Header
  \o (IF prismaEnums # <<>>
      THEN join(MapSeq(prismaEnums, formatEnum), "\n\n") \o "\n\n" ELSE "")
  \o join(MapSeq(modelList, formatModel), "\n\n")

\* (text.match(/^keyword\s+\w+/gm) || []).length
CountDeclarations(text, keyword) ==
  Cardinality({p \in 1..Len(text) :
    /\ p = 1 \/ Char(text, p - 1) = "\n"
    /\ LitAt(text, p, keyword)
    /\ Char(text, p + Len(keyword)) \in SpaceChars
    /\ Char(text, SpanIn(text, p + Len(keyword), SpaceChars)) \in WordChars})

(***************************************************************************)
(* The documents converted.  A document is a list of statements, each one  *)
(* ended by a semicolon and a line break.                                  *)
(***************************************************************************)
MaxParts == 3
MaxAlters == 1

\* the example of RELATION_NAMING.md, "Multiple FKs to Same Table"
PostsExample ==
  "CREATE TABLE posts (\n  id SERIAL PRIMARY KEY,\n  title TEXT,\n"
  \o "  author_id INTEGER REFERENCES users(id),\n"
  \o "  editor_id INTEGER REFERENCES users(id),\n"
  \o "  reviewer_id INTEGER REFERENCES users(id)\n)"

\* the example of RELATION_NAMING.md, "Composite Foreign Keys"
TenantsExample ==
  "CREATE TABLE tenants (\n  id SERIAL PRIMARY KEY,\n  name VARCHAR(255)\n)"
TenantUsersExample ==
  "CREATE TABLE users (\n  tenant_id INTEGER NOT NULL,\n  id SERIAL NOT NULL,\n"
  \o "  name VARCHAR(255),\n  PRIMARY KEY (tenant_id, id),\n"
  \o "  FOREIGN KEY (tenant_id) REFERENCES tenants(id)\n)"
TenantPostsExample ==
  "CREATE TABLE posts (\n  tenant_id INTEGER NOT NULL,\n  id SERIAL NOT NULL,\n"
  \o "  author_id INTEGER NOT NULL,\n  title TEXT,\n"
  \o "  PRIMARY KEY (tenant_id, id),\n"
  \o "  FOREIGN KEY (tenant_id) REFERENCES tenants(id),\n"
  \o "  -- Composite FK: (tenant_id, author_id) -> users(tenant_id, id)\n"
  \o "  FOREIGN KEY (tenant_id, author_id) REFERENCES users(tenant_id, id)\n)"

\* test_indexes_comments.sql
TestIndexesComments ==
     "-- Test SQL with indexes and comments\n"
  \o "CREATE TABLE users (\n"
  \o "  id SERIAL PRIMARY KEY,\n"
  \o "  email VARCHAR(255) NOT NULL,\n"
  \o "  username VARCHAR(100) NOT NULL,\n"
  \o "  created_at TIMESTAMP DEFAULT CURRENT_TIMESTAMP\n"
  \o ");\n"
  \o "\n"
  \o "COMMENT ON TABLE users IS 'Application users table';\n"
  \o "COMMENT ON COLUMN users.email IS 'User email address';\n"
  \o "COMMENT ON COLUMN users.username IS 'Unique username';\n"
  \o "\n"
  \o "CREATE INDEX idx_users_email ON users(email);\n"
  \o "CREATE UNIQUE INDEX idx_users_username ON users(username);\n"
  \o "\n"
  \o "CREATE TABLE posts (\n"
  \o "  id SERIAL PRIMARY KEY,\n"
  \o "  user_id INTEGER NOT NULL,\n"
  \o "  title VARCHAR(255) NOT NULL,\n"
  \o "  content TEXT,\n"
  \o "  published_at TIMESTAMP,\n"
  \o "  created_at TIMESTAMP DEFAULT CURRENT_TIMESTAMP\n"
  \o ");\n"
  \o "\n"
  \o "COMMENT ON TABLE posts IS 'User blog posts';\n"
  \o "COMMENT ON COLUMN posts.title IS 'Post title';\n"
  \o "\n"
  \o "CREATE INDEX idx_posts_user_id ON posts(user_id);\n"
  \o "CREATE INDEX idx_posts_published_at ON posts(published_at);\n"
  \o "CREATE INDEX idx_posts_user_published ON posts(user_id, published_at);\n"
  \o "\n"
  \o "ALTER TABLE posts ADD FOREIGN KEY (user_id) REFERENCES users(id);\n"

UsersTable ==
  "CREATE TABLE users (\n  id SERIAL PRIMARY KEY,\n  tenant_id INTEGER NOT NULL,\n"
  \o "  email VARCHAR(255) UNIQUE NOT NULL\n)"

\* a foreign key clause that does not start the part it stands in: the
\* only clauses isConstraintDefinition hands to parseConstraint
ParenthesisedKey ==
  "CREATE TABLE posts (id SERIAL PRIMARY KEY, tenant_id INTEGER, author_id INTEGER, "
  \o "(FOREIGN KEY (tenant_id, author_id) REFERENCES users(tenant_id, email, id)))"

\* the parts a posts table is made of, after its id column
PostParts ==
  <<"author VARCHAR(100)",
    "posts_author TEXT",
    "tenant_id INTEGER NOT NULL",
    "author_id INTEGER NOT NULL REFERENCES users(id)",
    "editor_id INTEGER REFERENCES users(id)",
    "parent_id INTEGER REFERENCES posts(id)",
    "FOREIGN KEY (tenant_id, author_id) REFERENCES users(tenant_id, id)">>

AlterStatements ==
  <<"ALTER TABLE posts ADD FOREIGN KEY (author_id) REFERENCES users(id)",
    "ALTER TABLE posts ADD CONSTRAINT fk_owner FOREIGN KEY (owner_id) REFERENCES accounts(id)",
    "ALTER TABLE comments ADD CONSTRAINT fk_post FOREIGN KEY (post_id) REFERENCES posts(id)">>

\* the elements of a set of positions, in increasing order
RECURSIVE Ascending(_)
Ascending(positions) ==
  IF positions = {} THEN <<>>
  ELSE LET least == CHOOSE i \in positions : \A j \in positions : i <= j
       IN  <<least>> \o Ascending(positions \ {least})

Choices(pool, max) ==
  {MapSeq(Ascending(chosen), LAMBDA i : pool[i]) :
     chosen \in {c \in SUBSET (1..Len(pool)) : Cardinality(c) <= max}}

PostsTable(parts) ==
  "CREATE TABLE posts (\n  id SERIAL PRIMARY KEY"
  \o ConcatMap(1, Len(parts), LAMBDA i : ",\n  " \o parts[i]) \o "\n)"

Document(stmts) == ConcatMap(1, Len(stmts), LAMBDA i : stmts[i] \o ";\n")

ComposedDocuments ==
  {Document(IF altersFirst THEN alters \o creates ELSE creates \o alters) :
     altersFirst \in BOOLEAN,
     alters \in Choices(AlterStatements, MaxAlters),
     creates \in {<<UsersTable, PostsTable(parts)>> :
                    parts \in Choices(PostParts, MaxParts)}}

ExampleDocuments ==
  {Document(<<PostsExample>>),
   Document(<<UsersTable, PostsExample>>),
   Document(<<TenantsExample, TenantUsersExample, TenantPostsExample>>),
   Document(<<UsersTable, ParenthesisedKey>>),
   TestIndexesComments}

Documents == ComposedDocuments \cup ExampleDocuments

(***************************************************************************)
(* Documents about the columns of a table: their types, their clauses,     *)
(* their comments.                                                         *)
(***************************************************************************)
EnumNames == {"status", "user_role", "Mood"}

\* the type a column is declared with
TypeTokens ==
  {"status", "STATUS", "Status", "user_role", "USER_ROLE", "User_Role",
   "mood", "TEXT"}

CreateType(name) == "CREATE TYPE " \o name \o " AS ENUM ('active', 'inactive')"

AccountsTable(type) ==
  "CREATE TABLE accounts (\n  id SERIAL PRIMARY KEY,\n  state " \o type
  \o " NOT NULL,\n  owner_id INTEGER REFERENCES accounts(id)\n)"

\* an enum and a table with a column of some type, in both orders
EnumDocuments ==
  {Document(IF typeFirst THEN <<CreateType(name), AccountsTable(type)>>
            ELSE <<AccountsTable(type), CreateType(name)>>) :
     typeFirst \in BOOLEAN, name \in EnumNames, type \in TypeTokens}

IntegerTypes == {"INTEGER", "BIGINT", "bigint"}
SerialTypes == {"SERIAL", "BIGSERIAL", "bigserial"}
IdentityClauses ==
  {" GENERATED ALWAYS AS IDENTITY", " GENERATED BY DEFAULT AS IDENTITY"}
KeyClauses == {"", " PRIMARY KEY"}
NullClauses == {"", " NOT NULL"}

\* a column definition: its name, its type, its clauses
ColumnText(type, identity, key, null) == "seq " \o type \o identity \o key \o null

ItemsTable(columnDef) ==
  "CREATE TABLE items (\n  " \o columnDef \o ",\n  label TEXT\n)"

\* a table whose first column has some type and some clauses
ColumnDocuments ==
  {Document(<<ItemsTable(ColumnText(type, identity, key, null))>>) :
     type \in IntegerTypes \cup SerialTypes \cup {"UUID"},
     identity \in IdentityClauses \cup {""},
     key \in KeyClauses, null \in NullClauses}

\* a table with a foreign key to users
AuthoredTable(name) ==
  "CREATE TABLE " \o name
  \o " (\n  id SERIAL PRIMARY KEY,\n  author_id INTEGER REFERENCES users(id)\n)"

TagsTable == "CREATE TABLE tags (\n  id SERIAL PRIMARY KEY,\n  label TEXT\n)"

\* a table, and the statements that comment it and one of its columns
MembersTable ==
  "CREATE TABLE members (\n  id SERIAL PRIMARY KEY,\n  email VARCHAR(255) NOT NULL\n)"
TableComment == "COMMENT ON TABLE members IS 'Application members'"
ColumnComment == "COMMENT ON COLUMN members.email IS 'Member email address'"
KeyComment == "COMMENT ON COLUMN posts.author_id IS 'The writer'"

\* the orders of three statements
Orders(first, second, third) ==
  {<<first, second, third>>, <<first, third, second>>, <<second, first, third>>,
   <<second, third, first>>, <<third, first, second>>, <<third, second, first>>}

\* the comments before, after and between the tables they are about
CommentDocuments ==
  {Document(IF postsFirst
            THEN <<UsersTable, KeyComment, AuthoredTable("posts")>> \o stmts
            ELSE stmts \o <<UsersTable, AuthoredTable("posts"), KeyComment>>) :
     postsFirst \in BOOLEAN,
     stmts \in Orders(MembersTable, TableComment, ColumnComment)}

\* texts with a semicolon inside a quoted literal
QuotedDocuments ==
  {Document(<<MembersTable, "COMMENT ON TABLE members IS 'first; second'">>),
   Document(<<"COMMENT ON COLUMN members.email IS 'a;b;c'", MembersTable>>),
   Document(<<"CREATE TABLE notes (\n  id SERIAL PRIMARY KEY,\n  body TEXT DEFAULT 'x;y'\n)",
              MembersTable>>),
   Document(<<MembersTable, "COMMENT ON TABLE members IS 'no semicolon'">>)}

\* a text that declares a table twice
RepeatedTable == Document(<<MembersTable, TagsTable, MembersTable>>)

\* four foreign keys to one table: the naming columns of the first, second
\* and fourth give no context, the context of the third is a number
NumberedContext ==
  Document(<<TagsTable,
             "CREATE TABLE posts (\n  id INTEGER REFERENCES tags(id),\n"
             \o "  posts_id INTEGER REFERENCES tags(id),\n"
             \o "  2_id INTEGER REFERENCES tags(id),\n"
             \o "  Posts_Id INTEGER REFERENCES tags(id)\n)">>)

\* a table with a foreign key to members, and statements about an index or a
\* comment: the first two name a column the table has, the other ones a
\* column it does not have or a table that is not declared
AuditTable ==
  "CREATE TABLE audit_logs (\n  id SERIAL PRIMARY KEY,\n"
  \o "  member_id INTEGER REFERENCES members(id)\n)"

PresentStatements ==
  <<"CREATE INDEX idx_audit_member ON audit_logs(member_id)",
    "CREATE UNIQUE INDEX idx_audit_id ON audit_logs(id, member_id)">>

AbsentTableStatements ==
  <<"CREATE INDEX idx_absent_member ON absent_logs(member_id)",
    "COMMENT ON TABLE absent_logs IS 'No such table'",
    "COMMENT ON COLUMN absent_logs.id IS 'No such table'">>

AbsentColumnStatements ==
  <<"CREATE UNIQUE INDEX idx_audit_actor ON audit_logs(actor_id)",
    "CREATE INDEX idx_audit_both ON audit_logs(member_id, actor_id)",
    "COMMENT ON COLUMN audit_logs.actor_id IS 'No such column'">>

IndexDocuments ==
  {Document(<<MembersTable, AuditTable>> \o stmts) :
     stmts \in Choices(PresentStatements \o AbsentTableStatements
                       \o AbsentColumnStatements, 2)}

\* column definitions with a DEFAULT clause, and without one but with the
\* word in a name
DefaultedColumns ==
  {"seq INTEGER DEFAULT 0", "active BOOLEAN DEFAULT true",
   "created_at TIMESTAMP DEFAULT now()", "kind VARCHAR(20) DEFAULT 'plain'",
   "id UUID PRIMARY KEY DEFAULT gen_random_uuid()",
   "seq SERIAL PRIMARY KEY DEFAULT 1"}

NamedDefaultColumns ==
  {"is_default BOOLEAN", "is_default BOOLEAN NOT NULL", "default_rank INTEGER"}

DefaultDocuments ==
  {Document(<<ItemsTable(columnDef)>>) :
     columnDef \in DefaultedColumns \cup NamedDefaultColumns}

SchemaDocuments ==
  EnumDocuments \cup ColumnDocuments \cup CommentDocuments \cup QuotedDocuments
  \cup IndexDocuments \cup DefaultDocuments \cup {RepeatedTable, NumberedContext}

(***************************************************************************)
(* The texts a user enters one after the other: the page converts each of  *)
(* them when it has been entered.                                          *)
(***************************************************************************)
\* tables with no foreign key from one to another
IndependentTables ==
  {AuthoredTable("post"), AuthoredTable("posts"), AuthoredTable("comments"),
   TagsTable}

\* a text, and the text with two of its CREATE TABLE statements swapped
SwappedDocuments ==
  {<<Document(<<UsersTable, first, second>>),
     Document(<<UsersTable, second, first>>)>> :
     <<first, second>> \in {pair \in IndependentTables \X IndependentTables :
                              pair[1] # pair[2]}}

\* texts with tables and relations, a blank text, and texts with no table
\* and no enum
EnteredDocuments ==
  {Document(<<UsersTable, AuthoredTable("posts")>>),
   Document(<<UsersTable, AuthoredTable("post"), AuthoredTable("posts")>>),
   TestIndexesComments,
   "  \n",
   "SELECT 1;\n",
   "-- no statement\n"}

\* a text, another text, and the first text again
RepeatedDocuments ==
  {<<text, other, text>> : text \in EnteredDocuments, other \in EnteredDocuments}

\* statements no pass of parseSQL can parse
UnparsedStatements ==
  {"CREATE TABLE oops", "CREATE TYPE mood AS ENUM",
   "ALTER TABLE posts ADD FOREIGN KEY author_id", "COMMENT ON TABLE users",
   "CREATE INDEX ON", "DROP TABLE users"}

\* parts of a table parseColumn cannot parse
UnparsedColumns == {"oops", "\"unclosed TEXT"}

\* constraints parseConstraint cannot parse
UnparsedConstraints == {"CHECK(id > 0)", "CHECK (id > 0)", "UNIQUE (title)"}

AuthorKey == "author_id INTEGER REFERENCES users(id)"

\* a text with a statement that cannot be parsed, and the text without it
WithStatement ==
  {<<Document(IF atStart THEN <<statement, UsersTable, AuthoredTable("posts")>>
              ELSE <<UsersTable, statement, AuthoredTable("posts")>>),
     Document(<<UsersTable, AuthoredTable("posts")>>)>> :
     statement \in UnparsedStatements, atStart \in BOOLEAN}

\* a text with a part of a table that cannot be parsed, and the text
\* without it
WithPart(parts) ==
  {<<Document(<<UsersTable, PostsTable(<<AuthorKey, part, "title TEXT">>)>>),
     Document(<<UsersTable, PostsTable(<<AuthorKey, "title TEXT">>)>>)>> :
     part \in parts}

UnparsedDocuments ==
  WithStatement \cup WithPart(UnparsedColumns) \cup WithPart(UnparsedConstraints)

Sessions == SwappedDocuments \cup RepeatedDocuments \cup UnparsedDocuments

(***************************************************************************)
(* The parse results generatePrismaSchema is called with directly: a users *)
(* table and a posts table with one foreign key to it, its column lists    *)
(* drawn from a few names.                                                  *)
(***************************************************************************)
MaxColumns == 3

OwningNames == {"tenant_id", "author_id"}
ReferencedNames == {"tenant_id", "id", "ID"}

\* the sequences of 1 to max elements of a set
Lists(names, max) == UNION {[1..n -> names] : n \in 1..max}

TableWith(name, constraints) ==
  [name |-> name, columns |-> <<>>, constraints |-> constraints,
   indexes |-> <<>>, comment |-> ""]

ParseResults ==
  {<<TableWith("users", <<>>),
     TableWith("posts", <<ForeignKey(columns, "users", referencedColumns)>>)>> :
     columns \in Lists(OwningNames, MaxColumns),
     referencedColumns \in Lists(ReferencedNames, MaxColumns)}

(***************************************************************************)
(* The conversion of one document by convertSQLToPrisma of the converter   *)
(* page: SQLParser.parseSQL, then PrismaGenerator.generatePrismaSchema.    *)
(***************************************************************************)
VARIABLES
  sql,               \* the text converted
  conversionStatus,  \* the page: conversionStatus
  prismaOutput,      \* the page: prismaOutput
  tablesConverted,   \* the page: tablesConverted
  inputs,            \* the texts the user is still to enter, in order
  history,           \* history: the conversions of the texts entered before
  plurals,           \* a word and the results of pluralize applied to it
  naming,            \* the arguments of a call of ensureUniqueFieldName, and
                     \* its result
  forwardNames,      \* a naming column, a referenced table and the result of
                     \* extractRelationFieldName applied to them
  statements,        \* parseSQL: the statements of the cleaned text
  pc,                \* the loop the conversion is in; "done" at its end,
                     \* "failed" after an exception
  si,                \* the statement the loop of a parseSQL pass is at
  enums,             \* parseSQL: enums
  tables,            \* parseSQL: tables
  models,            \* convertTablesToModels: models
  usedRelationNames, \* convertTablesToModels: usedRelationNames
  ti,                \* the table the loop of a generator pass is at
  ci,                \* the constraint the inner loop of the second pass is at
  relations          \* history: what the second pass did for each foreign key

vars == <<sql, statements, pc, si, enums, tables, models, usedRelationNames,
          ti, ci, relations, conversionStatus, prismaOutput, tablesConverted,
          inputs, history, plurals, forwardNames, naming>>

parserVars == <<sql, statements, enums, tables>>
generatorVars == <<models, usedRelationNames, ti, ci, relations>>
outputVars == <<conversionStatus, prismaOutput, tablesConverted>>
otherVars == <<inputs, history, plurals, forwardNames, naming>>

\* the loops of a parser that reads the comments before it has the tables
CommentsBeforeTables == <<"enums", "comments", "tables", "alters", "indexes">>

\* the loops of a parser that reads the tables before it has the enums
TablesBeforeEnums == <<"tables", "enums", "alters", "indexes", "comments">>

\* the loops of a parser that links the constraints before it has the tables
AltersBeforeTables == <<"enums", "alters", "tables", "indexes", "comments">>

\* the loops of parseSQL, in the order they run
Passes == <<"enums", "tables", "alters", "indexes", "comments">>

\* the page before a text is converted, and the text
Entered(text) ==
  /\ sql = text
  /\ statements = <<>>
  /\ pc = "convert"
  /\ si = 1
  /\ enums = <<>>
  /\ tables = <<>>
  /\ models = <<>>
  /\ usedRelationNames = {}
  /\ ti = 1
  /\ ci = 1
  /\ relations = <<>>
  /\ conversionStatus = "ready"
  /\ prismaOutput = ""
  /\ tablesConverted = 0
  /\ history = <<>>
  /\ plurals = <<>>
  /\ forwardNames = <<>>
  /\ naming = <<>>

Init ==
  /\ \E text \in Documents : Entered(text)
  /\ inputs = <<>>

\* convertSQLToPrisma, lines 799-807: a blank text gives an empty output
ConvertSQLToPrisma ==
  /\ pc = "convert"
  /\ IF trim(sql) = ""
     THEN /\ prismaOutput' = ""
          /\ tablesConverted' = 0
          /\ conversionStatus' = "ready"
          /\ pc' = "done"
     ELSE /\ conversionStatus' = "converting"
          /\ pc' = "clean"
          /\ UNCHANGED <<prismaOutput, tablesConverted>>
  /\ UNCHANGED <<sql, statements, si, enums, tables>>
  /\ UNCHANGED <<generatorVars, otherVars>>

\* parseSQL, lines 5-16: new lists, the text cleaned and split
SplitStatements ==
  /\ pc = "clean"
  /\ tables' = <<>>
  /\ enums' = <<>>
  /\ statements' = Statements(sql)
  /\ pc' = Passes[1]
  /\ si' = 1
  /\ UNCHANGED sql
  /\ UNCHANGED <<generatorVars, outputVars, otherVars>>

InPass(pass) == pc = pass /\ si <= Len(statements)

PushEnum(enumList, enumDef) ==
  IF enumDef.ok THEN Append(enumList, enumDef.enum) ELSE enumList

EnumsWith(enumList, trimmed, upperTrimmed) ==
  IF startsWith(upperTrimmed, "CREATE TYPE") /\ includes(upperTrimmed, "AS ENUM")
  THEN PushEnum(enumList, parseCreateEnum(trimmed))
  ELSE enumList

EnumsAfter(enumList, trimmed) == EnumsWith(enumList, trimmed, toUpperCase(trimmed))

\* first pass, one statement
EnumStatement ==
  /\ InPass("enums")
  /\ enums' = EnumsAfter(enums, trim(statements[si]))
  /\ si' = si + 1
  /\ UNCHANGED <<sql, statements, pc, tables>>
  /\ UNCHANGED <<generatorVars, outputVars, otherVars>>

PushTable(tableList, table) ==
  IF table.ok THEN Append(tableList, table.table) ELSE tableList

TablesAfter(tableList, enumList, trimmed) ==
  IF startsWith(toUpperCase(trimmed), "CREATE TABLE")
  THEN PushTable(tableList, parseCreateTable(trimmed, enumList))
  ELSE tableList

\* second pass, one statement
TableStatement ==
  /\ InPass("tables")
  /\ tables' = TablesAfter(tables, enums, trim(statements[si]))
  /\ si' = si + 1
  /\ UNCHANGED <<sql, statements, pc, enums>>
  /\ UNCHANGED <<generatorVars, outputVars, otherVars>>

IsAlterStatement(upperTrimmed) ==
  /\ startsWith(upperTrimmed, "ALTER TABLE")
  /\ includes(upperTrimmed, "ADD FOREIGN KEY") \/ includes(upperTrimmed, "ADD CONSTRAINT")

AltersAfter(tableList, trimmed) ==
  IF IsAlterStatement(toUpperCase(trimmed))
  THEN parseAlterTableForeignKey(trimmed, tableList)
  ELSE tableList

\* third pass, one statement
AlterStatement ==
  /\ InPass("alters")
  /\ tables' = AltersAfter(tables, trim(statements[si]))
  /\ si' = si + 1
  /\ UNCHANGED <<sql, statements, pc, enums>>
  /\ UNCHANGED <<generatorVars, outputVars, otherVars>>

IsIndexStatement(upperTrimmed) ==
  \/ startsWith(upperTrimmed, "CREATE INDEX")
  \/ startsWith(upperTrimmed, "CREATE UNIQUE INDEX")

IndexesAfter(tableList, trimmed) ==
  IF IsIndexStatement(toUpperCase(trimmed))
  THEN parseCreateIndex(trimmed, tableList)
  ELSE tableList

\* fourth pass, one statement
IndexStatement ==
  /\ InPass("indexes")
  /\ tables' = IndexesAfter(tables, trim(statements[si]))
  /\ si' = si + 1
  /\ UNCHANGED <<sql, statements, pc, enums>>
  /\ UNCHANGED <<generatorVars, outputVars, otherVars>>

CommentsAfter(tableList, trimmed) ==
  IF startsWith(toUpperCase(trimmed), "COMMENT ON")
  THEN parseComment(trimmed, tableList)
  ELSE tableList

\* fifth pass, one statement
CommentStatement ==
  /\ InPass("comments")
  /\ tables' = CommentsAfter(tables, trim(statements[si]))
  /\ si' = si + 1
  /\ UNCHANGED <<sql, statements, pc, enums>>
  /\ UNCHANGED <<generatorVars, outputVars, otherVars>>

\* the loop that follows a loop of parseSQL; after the last one parseSQL
\* returns
PassAfter(pass, i) ==
  IF i = 0 THEN pass
  ELSE IF i < Len(Passes) THEN Passes[i + 1]
  ELSE "check"

\* the end of a pass: the next one starts at the first statement
NextPass ==
  /\ \E i \in 1..Len(Passes) : pc = Passes[i]
  /\ si > Len(statements)
  /\ pc' = PassAfter(pc, FindIndex(Passes, LAMBDA pass : pass = pc))
  /\ si' = 1
  /\ UNCHANGED <<parserVars, generatorVars, outputVars, otherVars>>

\* a set of used identifiers that outlives the call
UsedRelationNamesKept == usedRelationNames

\* convertTablesToModels, line 43
NewUsedRelationNames == {}

\* convertSQLToPrisma, lines 812-822: a parse result without tables and
\* enums is an error; of any other, generatePrismaSchema starts
\* convertTablesToModels with no model and no identifier used
CheckParseResult ==
  /\ pc = "check"
  /\ IF tables = <<>> /\ enums = <<>>
     THEN /\ conversionStatus' = "error"
          /\ pc' = "done"
          /\ UNCHANGED generatorVars
     ELSE /\ pc' = "basic"
          /\ models' = <<>>
          /\ usedRelationNames' = NewUsedRelationNames
          /\ relations' = <<>>
          /\ ti' = 1
          /\ ci' = 1
          /\ UNCHANGED conversionStatus
  /\ UNCHANGED <<si, prismaOutput, tablesConverted>>
  /\ UNCHANGED <<parserVars, otherVars>>

\* convertTablesToModels, first pass, one table
BasicModel ==
  /\ pc = "basic"
  /\ ti <= Len(tables)
  /\ models' = Append(models, createBasicModel(tables[ti],
                                               convertEnumsToPrismaEnums(enums)))
  /\ ti' = ti + 1
  /\ UNCHANGED <<pc, si, usedRelationNames, ci, relations>>
  /\ UNCHANGED <<parserVars, outputVars, otherVars>>

SecondPass ==
  /\ pc = "basic"
  /\ ti > Len(tables)
  /\ pc' = "relations"
  /\ ti' = 1
  /\ ci' = 1
  /\ UNCHANGED <<si, models, usedRelationNames, relations>>
  /\ UNCHANGED <<parserVars, outputVars, otherVars>>

\* lines 57-98, one foreign key: the models and the identifiers used after
\* it, and what was done
WithBackRelation(modelList, usedNames, model, namingColumn, relationName, relationField, referencedModel, backRelationField) ==
  [failed |-> FALSE,
   models |-> IF referencedModel = 0 THEN modelList
              ELSE [modelList EXCEPT ![referencedModel].fields =
                      @ \o backRelationField],
   usedRelationNames |-> usedNames \cup {relationName},
   relation |-> [namingColumn |-> namingColumn,
                 relationName |-> relationName,
                 usedBefore |-> usedNames,
                 model |-> model,
                 relationField |-> relationField,
                 referencedModel |-> referencedModel,
                 backRelationField |-> backRelationField]]

WithReferencedModel(modelList, usedNames, constraint, table, model, namingColumn, relationName, relationField, referencedModel) ==
  WithBackRelation(modelList, usedNames, model, namingColumn, relationName,
                   relationField, referencedModel,
                   IF referencedModel = 0 THEN <<>>
                   ELSE createBackRelationField(constraint, table, relationName,
                                                modelList[referencedModel],
                                                namingColumn))

WithRelationField(modelList, usedNames, constraint, table, model, namingColumn, relationName, relationField) ==
  WithReferencedModel([modelList EXCEPT ![model].fields = @ \o relationField],
                      usedNames, constraint, table, model, namingColumn,
                      relationName, relationField,
                      FindModel(modelList, toPascalCase(constraint.referencedTable)))

WithRelationName(modelList, usedNames, constraint, table, model, namingColumn, relationName) ==
  WithRelationField(modelList, usedNames, constraint, table, model, namingColumn,
                    relationName,
                    createRelationField(constraint, table, relationName,
                                        modelList[model], namingColumn))

\* models.find(...)! of line 53 is taken for a model: were it undefined,
\* ensureUniqueFieldName would read model.fields of it and throw a TypeError,
\* which nothing catches
WithNamingColumn(modelList, usedNames, constraint, table, model, namingColumn) ==
  IF model = 0 THEN [failed |-> TRUE]
  ELSE WithRelationName(modelList, usedNames, constraint, table, model,
                        namingColumn,
                        generateDescriptiveRelationName(table.name,
                                                        constraint.referencedTable,
                                                        namingColumn, usedNames))

RelationOf(modelList, usedNames, constraint, table) ==
  WithNamingColumn(modelList, usedNames, constraint, table,
                   FindModel(modelList, toPascalCase(table.name)),
                   selectNamingColumn(constraint))

\* the history of a foreign key: where it stands, the field names of the
\* models before it, and what was done
RelationRecord(done, t, c, modelList) ==
  [table |-> t,
   constraint |-> c,
   namingColumn |-> done.relation.namingColumn,
   relationName |-> done.relation.relationName,
   usedBefore |-> done.relation.usedBefore,
   model |-> done.relation.model,
   relationField |-> done.relation.relationField,
   referencedModel |-> done.relation.referencedModel,
   backRelationField |-> done.relation.backRelationField,
   namesBefore |-> [m \in 1..Len(modelList) |-> FieldNames(modelList[m])]]

\* an exception ends the conversion in the catch clause of
\* convertSQLToPrisma, lines 843-851
Linked(done) ==
  IF done.failed
  THEN /\ pc' = "failed"
       /\ conversionStatus' = "error"
       /\ UNCHANGED <<models, usedRelationNames, relations>>
  ELSE /\ pc' = pc
       /\ UNCHANGED conversionStatus
       /\ models' = done.models
       /\ usedRelationNames' = done.usedRelationNames
       /\ relations' = Append(relations, RelationRecord(done, ti, ci, models))

\* convertTablesToModels, second pass, one constraint of one table
RelationFields ==
  /\ pc = "relations"
  /\ ti <= Len(tables)
  /\ ci <= Len(tables[ti].constraints)
  /\ IF /\ tables[ti].constraints[ci].type = "FOREIGN KEY"
        /\ tables[ti].constraints[ci].referencedTable # ""
     THEN Linked(RelationOf(models, usedRelationNames,
                            tables[ti].constraints[ci], tables[ti]))
     ELSE UNCHANGED <<pc, models, usedRelationNames, relations, conversionStatus>>
  /\ ci' = ci + 1
  /\ UNCHANGED <<si, ti, prismaOutput, tablesConverted>>
  /\ UNCHANGED <<parserVars, otherVars>>

\* the end of the constraints of a table
NextTable ==
  /\ pc = "relations"
  /\ ti <= Len(tables)
  /\ ci > Len(tables[ti].constraints)
  /\ ti' = ti + 1
  /\ ci' = 1
  /\ UNCHANGED <<pc, si, models, usedRelationNames, relations>>
  /\ UNCHANGED <<parserVars, outputVars, otherVars>>

\* convertSQLToPrisma, lines 824-842
Returned(prismaSchema) ==
  /\ prismaOutput' = prismaSchema
  /\ conversionStatus' = "ready"
  /\ tablesConverted' = CountDeclarations(prismaSchema, "model")
                        + CountDeclarations(prismaSchema, "enum")

\* convertTablesToModels returns models, generatePrismaSchema the text
ReturnModels ==
  /\ pc = "relations"
  /\ ti > Len(tables)
  /\ pc' = "done"
  /\ Returned(SchemaText(convertEnumsToPrismaEnums(enums), models))
  /\ UNCHANGED <<si, models, usedRelationNames, ti, ci, relations>>
  /\ UNCHANGED <<parserVars, otherVars>>

Next ==
  \/ ConvertSQLToPrisma
  \/ SplitStatements
  \/ EnumStatement
  \/ TableStatement
  \/ AlterStatement
  \/ IndexStatement
  \/ CommentStatement
  \/ NextPass
  \/ CheckParseResult
  \/ BasicModel
  \/ SecondPass
  \/ RelationFields
  \/ NextTable
  \/ ReturnModels

Spec == Init /\ [][Next]_vars

\* generatePrismaSchema called with a parse result
GeneratorInit ==
  /\ sql = ""
  /\ statements = <<>>
  /\ pc = "basic"
  /\ si = 1
  /\ enums = <<>>
  /\ tables \in ParseResults
  /\ models = <<>>
  /\ usedRelationNames = {}
  /\ ti = 1
  /\ ci = 1
  /\ relations = <<>>
  /\ conversionStatus = "converting"
  /\ prismaOutput = ""
  /\ tablesConverted = 0
  /\ inputs = <<>>
  /\ history = <<>>
  /\ plurals = <<>>
  /\ forwardNames = <<>>
  /\ naming = <<>>

GeneratorNext ==
  \/ BasicModel
  \/ SecondPass
  \/ RelationFields
  \/ NextTable
  \/ ReturnModels

GeneratorSpec == GeneratorInit /\ [][GeneratorNext]_vars

\* the words pluralize is called with: the texts of up to MaxWordLength
\* letters, among them the ends the function tells apart, and some table
\* names
MaxWordLength == 3

WordLetters == {"s", "h", "c", "x", "z", "y", "a", "S"}

TableWords == {"posts", "users", "category", "day", "box", "branch", "Address"}

Words ==
  {ConcatMap(1, Len(letters), LAMBDA i : letters[i]) :
     letters \in Lists(WordLetters, MaxWordLength)} \cup TableWords

\* pluralize called with a word
PluralizeInit ==
  /\ \E word \in Words : plurals = <<word>>
  /\ sql = ""
  /\ statements = <<>>
  /\ pc = "pluralize"
  /\ si = 1
  /\ enums = <<>>
  /\ tables = <<>>
  /\ models = <<>>
  /\ usedRelationNames = {}
  /\ ti = 1
  /\ ci = 1
  /\ relations = <<>>
  /\ conversionStatus = "ready"
  /\ prismaOutput = ""
  /\ tablesConverted = 0
  /\ inputs = <<>>
  /\ history = <<>>
  /\ forwardNames = <<>>
  /\ naming = <<>>

\* pluralize applied to the word, then to its own result
Pluralize ==
  /\ pc = "pluralize"
  /\ Len(plurals) < 3
  /\ plurals' = Append(plurals, pluralize(plurals[Len(plurals)]))
  /\ UNCHANGED <<pc, si, parserVars, generatorVars, outputVars>>
  /\ UNCHANGED <<inputs, history, forwardNames, naming>>

PluralizeSpec == PluralizeInit /\ [][Pluralize]_vars

\* the naming columns and the referenced tables extractRelationFieldName is
\* called with
NamingColumns ==
  {"id", "ID", "Id", "user_id", "users_id", "USERS_ID", "author_id",
   "created_by_user_id", "category_id", "categories_id", "account",
   "account_id", "box_id", "boxes_id", "class_id", "parent"}

ReferencedTables ==
  {"users", "Users", "categories", "account", "boxes", "class", "admins",
   "audit_logs"}

\* extractRelationFieldName called with a column and a table
FieldNameInit ==
  /\ \E fkColumn \in NamingColumns, targetTable \in ReferencedTables :
       forwardNames = <<fkColumn, targetTable>>
  /\ sql = ""
  /\ statements = <<>>
  /\ pc = "name"
  /\ si = 1
  /\ enums = <<>>
  /\ tables = <<>>
  /\ models = <<>>
  /\ usedRelationNames = {}
  /\ ti = 1
  /\ ci = 1
  /\ relations = <<>>
  /\ conversionStatus = "ready"
  /\ prismaOutput = ""
  /\ tablesConverted = 0
  /\ inputs = <<>>
  /\ history = <<>>
  /\ plurals = <<>>
  /\ naming = <<>>

ExtractRelationFieldName ==
  /\ pc = "name"
  /\ Len(forwardNames) = 2
  /\ forwardNames' = Append(forwardNames,
                            extractRelationFieldName(forwardNames[1], forwardNames[2]))
  /\ UNCHANGED <<pc, si, parserVars, generatorVars, outputVars>>
  /\ UNCHANGED <<inputs, history, plurals, naming>>

FieldNameSpec == FieldNameInit /\ [][ExtractRelationFieldName]_vars

\* the base names, naming columns and source tables ensureUniqueFieldName
\* is called with
NamingArguments ==
  {<<"author", "author_id", "posts">>,
   <<"postsAuthor", "author_id", "posts">>,
   <<"writer", "created_by_user_id", "audit_logs">>}

\* the names a model may have before the call: the names of the strategies
\* and the first numbered names
TakenNames(baseName, fkColumn, sourceTable) ==
  <<baseName,
    toCamelCase(StripIdSuffix(fkColumn)),
    toCamelCase(sourceTable) \o toPascalCase(baseName),
    toCamelCase(fkColumn),
    toCamelCase(sourceTable \o "_" \o StripIdSuffix(fkColumn)),
    toCamelCase(sourceTable \o "_" \o StripIdSuffix(fkColumn)) \o "2",
    toCamelCase(sourceTable \o "_" \o StripIdSuffix(fkColumn)) \o "3",
    "id">>

ModelWith(names) ==
  [name |-> "Users", fields |-> MapSeq(names, LAMBDA name : [name |-> name])]

\* ensureUniqueFieldName called with a model that has some of these names
NamingInit ==
  /\ \E arguments \in NamingArguments :
       \E names \in Choices(TakenNames(arguments[1], arguments[2], arguments[3]), 8) :
         naming = <<[baseName |-> arguments[1], model |-> ModelWith(names),
                     fkColumn |-> arguments[2], sourceTable |-> arguments[3]]>>
  /\ sql = ""
  /\ statements = <<>>
  /\ pc = "ensure"
  /\ si = 1
  /\ enums = <<>>
  /\ tables = <<>>
  /\ models = <<>>
  /\ usedRelationNames = {}
  /\ ti = 1
  /\ ci = 1
  /\ relations = <<>>
  /\ conversionStatus = "ready"
  /\ prismaOutput = ""
  /\ tablesConverted = 0
  /\ inputs = <<>>
  /\ history = <<>>
  /\ plurals = <<>>
  /\ forwardNames = <<>>

EnsureUniqueFieldName ==
  /\ pc = "ensure"
  /\ Len(naming) = 1
  /\ naming' = Append(naming,
                      ensureUniqueFieldName(naming[1].baseName, naming[1].model,
                                            naming[1].fkColumn, naming[1].sourceTable))
  /\ UNCHANGED <<pc, si, parserVars, generatorVars, outputVars>>
  /\ UNCHANGED <<inputs, history, plurals, forwardNames>>

NamingSpec == NamingInit /\ [][EnsureUniqueFieldName]_vars

\* the conversion of a document about columns
SchemaInit ==
  /\ \E text \in SchemaDocuments : Entered(text)
  /\ inputs = <<>>

SchemaSpec == SchemaInit /\ [][Next]_vars

\* what the page holds of a conversion when the next text is entered
Conversion ==
  [sql |-> sql, tables |-> tables, enums |-> enums, models |-> models,
   relations |-> relations, prismaOutput |-> prismaOutput,
   conversionStatus |-> conversionStatus]

\* the effect of the page, lines 857-868: the text has changed, and it is
\* converted
SqlInputChanged ==
  /\ pc \in {"done", "failed"}
  /\ inputs # <<>>
  /\ history' = Append(history, Conversion)
  /\ sql' = Head(inputs)
  /\ inputs' = Tail(inputs)
  /\ pc' = "convert"
  /\ UNCHANGED <<statements, si, enums, tables, plurals, forwardNames, naming>>
  /\ UNCHANGED <<generatorVars, outputVars>>

\* a user who enters the texts of a session
SessionInit ==
  \E session \in Sessions : Entered(session[1]) /\ inputs = Tail(session)

SessionNext == Next \/ SqlInputChanged

SessionSpec == SessionInit /\ [][SessionNext]_vars

(***************************************************************************)
(* Properties                                                              *)
(***************************************************************************)
\* the constraint a record of the history is about
ConstraintOfRelation(r) == tables[r.table].constraints[r.constraint]

\* the name of the one field a record of the history has, or no name
NameOf(fields) == IF fields = <<>> THEN "" ELSE fields[1].name

\* a name that ends with a digit
NumericSuffix(name) == Char(name, Len(name)) \in DigitSet

\* the field names a model has when the back-relation field of r is named
NamesBeforeBack(r) ==
  r.namesBefore[r.referencedModel]
  \cup (IF r.referencedModel = r.model /\ r.relationField # <<>>
        THEN {NameOf(r.relationField)} ELSE {})

\* C1: the relation identifiers generateDescriptiveRelationName has returned
\* within one conversion are pairwise distinct, and each of them is in the
\* set of used identifiers
RelationNamesUnique ==
  /\ \A j, k \in 1..Len(relations) :
       j # k => relations[j].relationName # relations[k].relationName
  /\ \A k \in 1..Len(relations) : relations[k].relationName \in usedRelationNames

\* a second foreign key with the base name of an earlier one got the suffix
RelationNameSuffixed ==
  \E k \in 1..Len(relations) :
    /\ relations[k].usedBefore # {}
    /\ endsWith(relations[k].relationName, "_2")
    /\ Slice(relations[k].relationName, 1, Len(relations[k].relationName) - 2)
         \in relations[k].usedBefore

\* the columns of each table have pairwise distinct camel-cased names
DistinctColumnNames ==
  \A t \in 1..Len(tables) :
    \A i, j \in 1..Len(tables[t].columns) :
      i # j => toCamelCase(tables[t].columns[i].name)
               # toCamelCase(tables[t].columns[j].name)

DistinctFieldNames(model) ==
  \A i, j \in 1..Len(model.fields) :
    i # j => model.fields[i].name # model.fields[j].name

\* C2: when the columns of each table have pairwise distinct camel-cased
\* names, the field names of every model are pairwise distinct; and no
\* forward or backward relation field has the name of a field that was in
\* its model when it was added
FieldNamesUnique ==
  /\ DistinctColumnNames =>
       \A m \in 1..Len(models) : DistinctFieldNames(models[m])
  /\ \A k \in 1..Len(relations) :
       /\ relations[k].relationField # <<>> =>
            NameOf(relations[k].relationField)
              \notin relations[k].namesBefore[relations[k].model]
       /\ relations[k].backRelationField # <<>> =>
            NameOf(relations[k].backRelationField) \notin NamesBeforeBack(relations[k])

\* the first name of a relation field was taken by a column, and the field
\* was given another one
FieldNameCollided ==
  /\ DistinctColumnNames
  /\ \E k \in 1..Len(relations) :
       /\ relations[k].relationField # <<>>
       /\ extractRelationFieldName(
            relations[k].namingColumn,
            ConstraintOfRelation(relations[k]).referencedTable)
            \in relations[k].namesBefore[relations[k].model]

\* the document of the scenario: the users table and the posts table of
\* RELATION_NAMING.md
PostsDocument == Document(<<UsersTable, PostsExample>>)

\* C3: for posts.author_id, posts.editor_id and posts.reviewer_id, all
\* referencing users(id), the output has three distinct relation
\* identifiers with the contexts Author, Editor, Reviewer, the forward
\* fields author, editor, reviewer on the post model and the backward fields
\* postsAsAuthor, postsAsEditor, postsAsReviewer on the user model, none
\* with a numeric suffix
PostsScenario ==
  (sql = PostsDocument /\ pc = "done") =>
    /\ Len(relations) = 3
    /\ \A k \in 1..3 :
         /\ endsWith(relations[k].relationName,
                     "_" \o <<"Author", "Editor", "Reviewer">>[k])
         /\ ~NumericSuffix(relations[k].relationName)
         /\ relations[k].model = 2
         /\ relations[k].referencedModel = 1
    /\ \A j, k \in 1..3 : j # k => relations[j].relationName # relations[k].relationName
    /\ [k \in 1..3 |-> NameOf(relations[k].relationField)]
         = <<"author", "editor", "reviewer">>
    /\ [k \in 1..3 |-> NameOf(relations[k].backRelationField)]
         = <<"postsAsAuthor", "postsAsEditor", "postsAsReviewer">>

\* the five names ensureUniqueFieldName tries before its counter
Candidates(baseName, fkColumn, sourceTable) ==
  {baseName,
   toCamelCase(StripIdSuffix(fkColumn)),
   toCamelCase(sourceTable) \o toPascalCase(baseName),
   toCamelCase(fkColumn),
   toCamelCase(sourceTable \o "_" \o StripIdSuffix(fkColumn))}

ForwardCandidates(r) ==
  Candidates(extractRelationFieldName(r.namingColumn,
                                      ConstraintOfRelation(r).referencedTable),
             r.namingColumn, tables[r.table].name)

BackCandidates(r) ==
  Candidates(BackRelationBaseName(tables[r.table].name, r.namingColumn),
             r.namingColumn, tables[r.table].name)

SingleColumn(constraint) ==
  Len(constraint.columns) = 1 /\ Len(constraint.referencedColumns) = 1

\* the names of a foreign key collide: its relation identifier is in use,
\* or each of the five names of one of its fields is the name of a field of
\* the model
Colliding(r) ==
  \/ RelationBaseName(tables[r.table].name, ConstraintOfRelation(r).referencedTable,
                      r.namingColumn) \in r.usedBefore
  \/ ForwardCandidates(r) \subseteq r.namesBefore[r.model]
  \/ r.referencedModel # 0 /\ BackCandidates(r) \subseteq NamesBeforeBack(r)

IdPositions(constraint) ==
  {i \in 1..Len(constraint.referencedColumns) :
     toLowerCase(constraint.referencedColumns[i]) = "id"}

Least(positions) == CHOOSE i \in positions : \A j \in positions : i <= j

NamingColumnOf(constraint, ids) ==
  IF Len(constraint.columns) = 1 THEN constraint.columns[1]
  ELSE IF ids # {} /\ Least(ids) <= Len(constraint.columns)
    THEN constraint.columns[Least(ids)]
  ELSE constraint.columns[Len(constraint.columns)]

TenantDocument == Document(<<TenantsExample, TenantUsersExample, TenantPostsExample>>)

\* C6: a table-level FOREIGN KEY (tenant_id, author_id) REFERENCES
\* users(tenant_id, id) gives the posts model a forward field named after
\* author_id, with a relation identifier of the context Author, whose
\* @relation attribute lists both owning columns and both referenced columns
CompositeKeyNamed ==
  (sql = TenantDocument /\ pc = "done") =>
    \E m \in 1..Len(models) :
      /\ models[m].name = toPascalCase("posts")
      /\ \E f \in 1..Len(models[m].fields) :
           /\ models[m].fields[f].name = "author"
           /\ \E a \in 1..Len(models[m].fields[f].attributes) :
                /\ startsWith(models[m].fields[f].attributes[a], "@relation(")
                /\ includes(models[m].fields[f].attributes[a],
                            "_Author\", fields: [tenantId, authorId], "
                            \o "references: [tenantId, id])")

\* C7: every FOREIGN KEY constraint of the parse result has as many owning
\* columns as referenced columns
ForeignKeyListsCorrespond ==
  \A t \in 1..Len(tables) :
    \A c \in 1..Len(tables[t].constraints) :
      tables[t].constraints[c].type = "FOREIGN KEY" =>
        Len(tables[t].constraints[c].columns)
          = Len(tables[t].constraints[c].referencedColumns)

\* statement k starts as the statements of the third loop do
IsAlter(k) == toUpperCase(Slice(trim(statements[k]), 1, 11)) = "ALTER TABLE"

\* what the expression of parseAlterTableForeignKey finds in statement k
AlterMatch(k) == match(trim(statements[k]), AlterExpression)

AlteredTable(fkMatch) == Capture(fkMatch, "table")
ReferencedTable(fkMatch) == Capture(fkMatch, "referencedTable")

\* the constraint a statement declares
AlterConstraint(fkMatch) ==
  ForeignKey(<<Capture(fkMatch, "column")>>, ReferencedTable(fkMatch),
             <<Capture(fkMatch, "referencedColumn")>>)

Declared(name) == \E t \in 1..Len(tables) : tables[t].name = name

\* the table a statement alters has the constraint of the statement
Attached(fkMatch) ==
  \E t \in 1..Len(tables) :
    /\ tables[t].name = AlteredTable(fkMatch)
    /\ \E c \in 1..Len(tables[t].constraints) :
         tables[t].constraints[c] = AlterConstraint(fkMatch)

\* a statement that adds, to a declared table, a foreign key to an
\* undeclared one
Dangling(fkMatch) ==
  /\ fkMatch.ok
  /\ Declared(AlteredTable(fkMatch))
  /\ ~Declared(ReferencedTable(fkMatch))

\* the third loop of parseSQL is over
AltersOver == pc \in {"indexes", "comments", "check", "basic", "relations", "done"}

\* the second pass made a forward field and no backward field for the
\* constraint of a statement
ForwardOnly(fkMatch) ==
  \E j \in 1..Len(relations) :
    /\ tables[relations[j].table].name = AlteredTable(fkMatch)
    /\ ConstraintOfRelation(relations[j]) = AlterConstraint(fkMatch)
    /\ relations[j].relationField # <<>>
    /\ relations[j].relationField[1].type = toPascalCase(ReferencedTable(fkMatch))
    /\ relations[j].referencedModel = 0
    /\ relations[j].backRelationField = <<>>

Dropped(fkMatch) ==
  Dangling(fkMatch) =>
    /\ ~Attached(fkMatch)
    /\ \A j \in 1..Len(relations) :
         ConstraintOfRelation(relations[j]) # AlterConstraint(fkMatch)

Stays(fkMatch) ==
  Dangling(fkMatch) =>
    Attached(fkMatch) /\ (pc = "done" => ForwardOnly(fkMatch))

DanglingStays ==
  AltersOver =>
    \A k \in 1..Len(statements) : IsAlter(k) => Stays(AlterMatch(k))

DanglingPresent ==
  /\ AltersOver
  /\ \E k \in 1..Len(statements) : IsAlter(k) /\ Dangling(AlterMatch(k))

Converted(fkMatch) ==
  Dangling(fkMatch) /\ Attached(fkMatch) /\ ForwardOnly(fkMatch)

AlterEffect(fkMatch) ==
  IF fkMatch.ok /\ Declared(AlteredTable(fkMatch))
  THEN \E t \in 1..Len(tables) :
         /\ tables[t].name = AlteredTable(fkMatch)
         /\ tables' = [tables EXCEPT ![t].constraints =
                         Append(@, AlterConstraint(fkMatch))]
  ELSE tables' = tables

JustAttached(fkMatch) ==
  /\ fkMatch.ok
  /\ \E t \in 1..Len(tables) :
       /\ tables[t].name = AlteredTable(fkMatch)
       /\ tables[t].name # ReferencedTable(fkMatch)
       /\ tables[t].constraints # <<>>
       /\ tables[t].constraints[Len(tables[t].constraints)] = AlterConstraint(fkMatch)

OnItsTable(fkMatch) ==
  (fkMatch.ok /\ Declared(AlteredTable(fkMatch))) => Attached(fkMatch)

\* C10: once the third loop is over, every ALTER TABLE foreign key whose
\* table is declared anywhere in the document is on that table, wherever
\* the statement stands
AltersLinked ==
  AltersOver =>
    \A k \in 1..Len(statements) : IsAlter(k) => OnItsTable(AlterMatch(k))

\* statement j declares a table, without a foreign key of its own
CreatesPlain(j, name) ==
  /\ toUpperCase(Slice(trim(statements[j]), 1, 13 + Len(name)))
       = "CREATE TABLE " \o toUpperCase(name)
  /\ indexOf(statements[j], "REFERENCES", 1) = 0

LinkedBefore(k, fkMatch) ==
  /\ fkMatch.ok
  /\ Attached(fkMatch)
  /\ \E j \in (k + 1)..Len(statements) : CreatesPlain(j, AlteredTable(fkMatch))

\* an ALTER TABLE statement written before the CREATE TABLE statement of its
\* table, a table without a foreign key of its own, and linked to it
AlterBeforeCreate ==
  /\ AltersOver
  /\ \E k \in 1..Len(statements) : IsAlter(k) /\ LinkedBefore(k, AlterMatch(k))
(***************************************************************************)
(* Columns                                                                 *)
(***************************************************************************)
\* parseSQL has returned
Parsed == pc \in {"check", "basic", "relations", "done"}

\* the enums whose name is the type of a column, letter case aside
EnumsOfType(type) ==
  {e \in 1..Len(enums) : toLowerCase(enums[e].name) = toLowerCase(type)}

\* the columns whose type names a declared enum
EnumColumns ==
  {tc \in {<<t, c>> : t \in 1..Len(tables), c \in 1..3} :
     /\ tc[2] <= Len(tables[tc[1]].columns)
     /\ EnumsOfType(tables[tc[1]].columns[tc[2]].type) # {}}

\* C11: once parseSQL has returned, every column whose type is the name of
\* a declared enum, letter case aside, is flagged isEnum, and at the end of
\* the conversion its field has the type of that enum, the PascalCase form of
\* the enum's name, wherever the CREATE TYPE statement stands
EnumColumnsTyped ==
  Parsed =>
    \A tc \in EnumColumns :
      /\ tables[tc[1]].columns[tc[2]].isEnum
      /\ (pc = "done" /\ conversionStatus = "ready") =>
           \A e \in EnumsOfType(tables[tc[1]].columns[tc[2]].type) :
             models[tc[1]].fields[tc[2]].type = toPascalCase(enums[e].name)

\* an enum declared after the table that uses it, under another letter case
EnumAfterTable ==
  /\ pc = "done"
  /\ conversionStatus = "ready"
  /\ startsWith(sql, "CREATE TABLE")
  /\ \E tc \in EnumColumns :
       /\ tables[tc[1]].columns[tc[2]].type # enums[1].name
       /\ models[tc[1]].fields[tc[2]].type = toPascalCase(enums[1].name)
       /\ models[tc[1]].fields[tc[2]].type # "String"

\* C12: in every parse result, every column flagged isPrimaryKey is not
\* nullable and is unique, whether or not its definition says NOT NULL or
\* UNIQUE
PrimaryKeyColumns ==
  \A t \in 1..Len(tables) : \A c \in 1..Len(tables[t].columns) :
    tables[t].columns[c].isPrimaryKey =>
      ~tables[t].columns[c].nullable /\ tables[t].columns[c].isUnique

\* a primary key column written without NOT NULL and without UNIQUE
BarePrimaryKey ==
  /\ Parsed
  /\ ~includes(toUpperCase(sql), "NOT NULL")
  /\ ~includes(toUpperCase(sql), "UNIQUE")
  /\ \E t \in 1..Len(tables) : \E c \in 1..Len(tables[t].columns) :
       /\ tables[t].columns[c].isPrimaryKey
       /\ ~tables[t].columns[c].nullable
       /\ tables[t].columns[c].isUnique

(***************************************************************************)
(* Relation optionality                                                    *)
(***************************************************************************)
\* the columns of the table of a record of the history that are nullable
NullableColumns(r) ==
  {tables[r.table].columns[c].name :
     c \in {c \in 1..Len(tables[r.table].columns) :
              tables[r.table].columns[c].nullable}}

\* the forward relation fields of a model
ForwardFields(model) ==
  SelectSeq(model.fields, LAMBDA field : isRelationField(field) /\ ~field.isArray)

\* C13: the forward relation field of a foreign key is optional exactly when
\* one of the columns of the foreign key is nullable on the owning table, and
\* the backward field is a list that is not optional.  In the multi-tenant
\* example every column of posts that a foreign key is declared on
\* (tenant_id, author_id) is NOT NULL, so no forward relation of posts is
\* optional
RelationOptionality ==
  /\ \A i \in 1..Len(relations) :
       /\ relations[i].relationField[1].isOptional
            = (\E c \in 1..Len(ConstraintOfRelation(relations[i]).columns) :
                 ConstraintOfRelation(relations[i]).columns[c]
                   \in NullableColumns(relations[i]))
       /\ relations[i].backRelationField # <<>> =>
            /\ ~relations[i].backRelationField[1].isOptional
            /\ relations[i].backRelationField[1].isArray
  /\ (sql = TenantDocument /\ pc = "done") =>
       \A m \in 1..Len(models) :
         models[m].name = toPascalCase("posts") =>
           \A f \in 1..Len(ForwardFields(models[m])) :
             ~ForwardFields(models[m])[f].isOptional

(***************************************************************************)
(* pluralize                                                               *)
(***************************************************************************)
\* C14: pluralize applied to its own result returns it unchanged, and a
\* word that ends in s is returned unchanged
PluralizeIdempotent ==
  /\ Len(plurals) >= 3 => plurals[3] = plurals[2]
  /\ (Len(plurals) >= 2 /\ endsWith(plurals[1], "s")) => plurals[2] = plurals[1]

\* a word the first call changes and the second leaves alone
PluralStable ==
  /\ Len(plurals) = 3
  /\ plurals[1] = "category"
  /\ plurals[2] = "categories"
  /\ plurals[3] = "categories"

(***************************************************************************)
(* The order of the statements                                             *)
(***************************************************************************)
\* the models with their fields, without the order of either
FieldSets(modelList) ==
  {[name |-> modelList[m].name,
    fields |-> {modelList[m].fields[f] : f \in 1..Len(modelList[m].fields)}] :
     m \in 1..Len(modelList)}

\* the first name of a relation's identifier or of one of its two fields
\* was taken when the foreign key was processed
FirstNameTaken(tableList, r) ==
  \/ RelationBaseName(tableList[r.table].name,
                      tableList[r.table].constraints[r.constraint].referencedTable,
                      r.namingColumn) \in r.usedBefore
  \/ extractRelationFieldName(r.namingColumn,
                              tableList[r.table].constraints[r.constraint].referencedTable)
       \in r.namesBefore[r.model]
  \/ /\ r.referencedModel # 0
     /\ BackRelationBaseName(tableList[r.table].name, r.namingColumn)
          \in NamesBeforeBack(r)

NoFirstNameTaken(tableList, relationList) ==
  \A j \in 1..Len(relationList) : ~FirstNameTaken(tableList, relationList[j])

\* the text converted is the k-th text of the session with two independent
\* CREATE TABLE statements swapped
SwappedAfter(k) == pc = "done" /\ <<history[k].sql, sql>> \in SwappedDocuments

Deterministic ==
  \A k \in 1..Len(history) :
    history[k].sql = sql =>
      /\ pc = "check" =>
           tables = history[k].tables /\ enums = history[k].enums
      /\ (pc = "done" /\ conversionStatus = "ready") =>
           /\ history[k].conversionStatus = "ready"
           /\ prismaOutput = history[k].prismaOutput

\* a text with a relation converted a second time, after another text with
\* relations
ConvertedAgain ==
  /\ Len(history) = 2
  /\ history[1].sql = sql
  /\ history[2].sql # sql
  /\ pc = "done"
  /\ conversionStatus = "ready"
  /\ relations # <<>>
  /\ history[2].relations # <<>>
  /\ history[2].conversionStatus = "ready"

(***************************************************************************)
(* What cannot be parsed                                                   *)
(***************************************************************************)
\* the text converted is the k-th text of the session without what cannot
\* be parsed in it
WithoutUnparsed(k, pairs) == pc = "done" /\ <<history[k].sql, sql>> \in pairs

\* the conversions of the texts of these pairs end alike, and without
\* exception
SkippedIn(pairs) ==
  /\ pc # "failed"
  /\ \A k \in 1..Len(history) :
       WithoutUnparsed(k, pairs) =>
         /\ history[k].conversionStatus = "ready"
         /\ conversionStatus = "ready"
         /\ history[k].tables = tables
         /\ history[k].prismaOutput = prismaOutput

\* C17: no exception ends a conversion, and a statement, a column or a
\* constraint that cannot be parsed is skipped: the text converts as the
\* text without it
UnparsedSkipped == SkippedIn(UnparsedDocuments)

\* the same, for statements and columns only
UnparsedStatementSkipped == SkippedIn(WithStatement \cup WithPart(UnparsedColumns))

(***************************************************************************)
(* A text without tables and enums                                         *)
(***************************************************************************)
\* parseSQL has returned, or the conversion has ended, with no table and no
\* enum, for a text that is not blank
NothingParsed ==
  /\ pc \in {"check", "done"}
  /\ trim(sql) # ""
  /\ tables = <<>>
  /\ enums = <<>>

\* C18: parseSQL returns empty lists of tables and enums without error, and
\* the conversion of such a text does not end in the error state
EmptyResultValid ==
  NothingParsed => pc # "failed" /\ (pc = "done" => conversionStatus # "error")

(***************************************************************************)
(* Identity columns                                                        *)
(***************************************************************************)
\* the shorthand of an integer type
SerialOf(type) == IF toUpperCase(type) = "INTEGER" THEN "SERIAL" ELSE "BIGSERIAL"

\* the field of a column definition, in a text without enums
FieldOf(columnDef) ==
  convertColumnToField(parseColumn(columnDef, <<>>, <<>>).column, <<>>)

\* the attributes of a field that say how its value is generated
DefaultAttributes(field) ==
  SelectSeq(field.attributes, LAMBDA attribute : includes(attribute, "@default"))

\* the text converted is a table whose first column is this one
ColumnConverted(type, identity, key, null) ==
  /\ pc = "done"
  /\ sql = Document(<<ItemsTable(ColumnText(type, identity, key, null))>>)

\* C19: the field of an INTEGER or BIGINT column with an identity clause has
\* the type and the default attribute of the field of the same column
\* declared SERIAL or BIGSERIAL, primary key or not, NOT NULL or not
IdentityAsSerial ==
  \A type \in IntegerTypes, identity \in IdentityClauses,
     key \in KeyClauses, null \in NullClauses :
    ColumnConverted(type, identity, key, null) =>
      /\ models[1].fields[1].type
           = FieldOf(ColumnText(SerialOf(type), "", key, null)).type
      /\ DefaultAttributes(models[1].fields[1])
           = DefaultAttributes(FieldOf(ColumnText(SerialOf(type), "", key, null)))

\* the same, for the clause GENERATED ALWAYS AS IDENTITY and for primary keys
IdentityAsSerialWithoutDefault ==
  \A type \in IntegerTypes, identity \in IdentityClauses,
     key \in KeyClauses, null \in NullClauses :
    (/\ ColumnConverted(type, identity, key, null)
     /\ identity = " GENERATED ALWAYS AS IDENTITY" \/ key = " PRIMARY KEY") =>
      /\ models[1].fields[1].type
           = FieldOf(ColumnText(SerialOf(type), "", key, null)).type
      /\ models[1].fields[1].attributes
           = FieldOf(ColumnText(SerialOf(type), "", key, null)).attributes

(***************************************************************************)
(* Comments                                                                *)
(***************************************************************************)
\* the documentation line of a table's comment, and the model line after it
ModelComment(t) ==
  "/// " \o tables[t].comment \o "\nmodel " \o models[t].name \o " {\n"

\* the documentation line of a column's comment, and the start of the field
\* line after it
FieldComment(t, c) ==
  "  /// " \o tables[t].columns[c].comment \o "\n  "
  \o models[t].fields[c].name \o " "

\* the comments the statements of a text give the members table and the
\* posts table
CommentsParsed ==
  /\ tables[FindTable(tables, "members")].comment = "Application members"
  /\ tables[FindTable(tables, "members")].columns[2].comment = "Member email address"
  /\ tables[FindTable(tables, "posts")].columns[2].comment = "The writer"

\* C20: the comment of a COMMENT ON TABLE statement and the comment of a
\* COMMENT ON COLUMN statement stand in the schema as a /// line directly
\* before the model line and directly before the field line, wherever the
\* statements stand in the text
CommentsPrecede ==
  /\ (Parsed /\ sql \in CommentDocuments) => CommentsParsed
  /\ (pc = "done" /\ conversionStatus = "ready") =>
       \A t \in 1..Len(tables) :
         /\ tables[t].comment # "" => includes(prismaOutput, ModelComment(t))
         /\ \A c \in 1..Len(tables[t].columns) :
              tables[t].columns[c].comment # "" =>
                includes(prismaOutput, FieldComment(t, c))

\* a text that starts with the comment of a column of a table it declares
\* later, converted
CommentBeforeTable ==
  /\ pc = "done"
  /\ conversionStatus = "ready"
  /\ startsWith(sql, ColumnComment)
  /\ includes(prismaOutput,
              "/// Application members\nmodel Members {\n"
              \o "  id    Int    @id @default(autoincrement())\n"
              \o "  /// Member email address\n  email String\n}")
  /\ includes(prismaOutput, "  /// The writer\n  authorId Int?")

(***************************************************************************)
(* Model names                                                             *)
(***************************************************************************)
\* a conversion that has generated a schema
Generated == pc = "done" /\ conversionStatus = "ready" /\ trim(sql) # ""

\* the identifier and the field types of every relation use the names of
\* the models of the two tables
RelationsUseModelNames ==
  Generated =>
    \A k \in 1..Len(relations) :
      /\ startsWith(relations[k].relationName,
                    models[relations[k].model].name \o "To"
                    \o toPascalCase(ConstraintOfRelation(relations[k]).referencedTable))
      /\ relations[k].referencedModel # 0 =>
           /\ relations[k].relationField # <<>> =>
                relations[k].relationField[1].type
                  = models[relations[k].referencedModel].name
           /\ relations[k].backRelationField # <<>> =>
                relations[k].backRelationField[1].type
                  = models[relations[k].model].name

\* C21: every table is emitted as a model named by the table name in
\* PascalCase and singular (users gives User), and relation identifiers and
\* relation field types use that model name
ModelNamesSingular ==
  /\ Generated =>
       \A t \in 1..Len(tables) : models[t].name = sqlToPrismaName(tables[t].name)
  /\ RelationsUseModelNames

(***************************************************************************)
(* The forward field name                                                  *)
(***************************************************************************)
\* the singular name of a table, as a field name
SingularName(targetTable) == LowerFirst(sqlToPrismaName(targetTable))

\* the base forward field name as the rule states it
StatedFieldName(fkColumn, targetTable) ==
  IF fkColumn = "id" THEN SingularName(targetTable)
  ELSE IF StripIdSuffix(fkColumn) = targetTable THEN SingularName(targetTable)
  ELSE toCamelCase(StripIdSuffix(fkColumn))

\* C22, as stated: the base forward field name is the singular name of the
\* referenced table if the naming column is literally id, or if the naming
\* column without its _id suffix is the name of the referenced table;
\* otherwise it is the naming column without its suffix, in camel case
ForwardNameAsStated ==
  Len(forwardNames) = 3 =>
    forwardNames[3] = StatedFieldName(forwardNames[1], forwardNames[2])

\* C22: the base forward field name is the name of the referenced table in
\* camel case, not its singular, if the naming column is id or, without its
\* _id suffix, the name of the referenced table, letter case aside in both
\* tests; otherwise it is the naming column without its suffix, in camel case
ForwardNameOfTable ==
  Len(forwardNames) = 3 =>
    forwardNames[3]
      = IF toLowerCase(forwardNames[1]) = "id"
           \/ toLowerCase(StripIdSuffix(forwardNames[1])) = toLowerCase(forwardNames[2])
        THEN toCamelCase(forwardNames[2])
        ELSE toCamelCase(StripIdSuffix(forwardNames[1]))

\* a naming column that is the name of the referenced table with the suffix
\* _id, in another letter case, named after the table, not after its singular
TableNamed ==
  /\ Len(forwardNames) = 3
  /\ toLowerCase(forwardNames[1]) # "id"
  /\ StripIdSuffix(forwardNames[1]) # forwardNames[2]
  /\ forwardNames[3] = toCamelCase(forwardNames[2])
  /\ forwardNames[3] # SingularName(forwardNames[2])

(***************************************************************************)
(* The statements of a text                                                *)
(***************************************************************************)
\* the positions of the semicolons of a text that stand outside the quoted
\* literals: those with an even number of quotes before them
UnquotedSemicolons(text) ==
  {p \in 1..Len(text) :
     /\ Char(text, p) = ";"
     /\ Cardinality({q \in 1..(p - 1) : Char(text, q) = "'"}) % 2 = 0}

\* the pieces of a text between the positions of cuts
PiecesAt(text, cuts) ==
  [i \in 1..(Len(cuts) + 1) |->
     Slice(text, IF i = 1 THEN 1 ELSE cuts[i - 1] + 1,
           IF i > Len(cuts) THEN Len(text) ELSE cuts[i] - 1)]

\* the statements of a text split on its unquoted semicolons
UnquotedStatements(text) ==
  SelectSeq(PiecesAt(text, Ascending(UnquotedSemicolons(text))),
            LAMBDA stmt : trim(stmt) # "")

\* C23: the statements of a text are the non-empty pieces between its
\* unquoted semicolons, in order: a semicolon inside a quoted literal does
\* not end a statement
SplitOnUnquoted ==
  (pc \notin {"convert", "clean"} /\ trim(sql) # "") =>
    statements = UnquotedStatements(cleanedSQL(sql))

\* the same, for the texts without a semicolon inside a quoted literal
SplitOnSemicolons ==
  (/\ pc \notin {"convert", "clean"}
   /\ trim(sql) # ""
   /\ sql \notin QuotedDocuments \ {Document(<<MembersTable, "COMMENT ON TABLE members IS 'no semicolon'">>)}) =>
    statements = UnquotedStatements(cleanedSQL(sql))

(***************************************************************************)
(* The names of a parse result                                             *)
(***************************************************************************)
TableNamesDistinct ==
  Parsed =>
    \A t, u \in 1..Len(tables) : t # u => tables[t].name # tables[u].name

ColumnNamesDistinct ==
  Parsed =>
    \A t \in 1..Len(tables) :
      \A c, d \in 1..Len(tables[t].columns) :
        c # d => tables[t].columns[c].name # tables[t].columns[d].name

\* C24: in every parse result the names of the tables are pairwise distinct
\* and, within each table, the names of the columns are pairwise distinct
NamesDistinct == TableNamesDistinct /\ ColumnNamesDistinct

(***************************************************************************)
(* The uniqueness cascade                                                  *)
(***************************************************************************)
\* the five names of the strategies of a call, in the order of the rule
Strategies(call) ==
  <<call.baseName,
    toCamelCase(StripIdSuffix(call.fkColumn)),
    toCamelCase(call.sourceTable) \o toPascalCase(call.baseName),
    toCamelCase(call.fkColumn),
    toCamelCase(call.sourceTable \o "_" \o StripIdSuffix(call.fkColumn))>>

\* the strategies whose name the model does not have
FreeStrategies(call) ==
  {i \in 1..5 : Strategies(call)[i] \notin FieldNames(call.model)}

\* the name is the fifth name with the least counter, from 2 on, that gives
\* a name the model does not have
LeastNumbered(call, name) ==
  \E n \in 2..(Cardinality(FieldNames(call.model)) + 2) :
    /\ name = Strategies(call)[5] \o NumberToString(n)
    /\ \A m \in 2..(n - 1) :
         Strategies(call)[5] \o NumberToString(m) \in FieldNames(call.model)

BaseOf(r) ==
  RelationBaseName(tables[r.table].name,
                   tables[r.table].constraints[r.constraint].referencedTable,
                   r.namingColumn)

\* name is baseName with the least suffix, from 2 on, that is not in used
LeastSuffix(baseName, used, name) ==
  \E n \in 2..(Cardinality(used) + 2) :
    /\ name = baseName \o "_" \o NumberToString(n)
    /\ name \notin used
    /\ \A m \in 2..(n - 1) : baseName \o "_" \o NumberToString(m) \in used

\* the foreign key r stands after the foreign key q: in a later table, or
\* later in the same table
After(q, r) ==
  \/ q.table < r.table
  \/ q.table = r.table /\ q.constraint < r.constraint

\* a step that adds a foreign key to the history adds its identifier to the
\* used ones; the identifier is the base one if that was not used, and the
\* base one with the least unused suffix otherwise
Assigned(r) ==
  /\ Len(relations') = Len(relations) + 1
  /\ r.usedBefore = usedRelationNames
  /\ usedRelationNames' = usedRelationNames \cup {r.relationName}
  /\ \A k \in 1..Len(relations) : After(relations[k], r)
  /\ IF BaseOf(r) \notin usedRelationNames
     THEN r.relationName = BaseOf(r)
     ELSE LeastSuffix(BaseOf(r), usedRelationNames, r.relationName)

\* no step takes an identifier out of the used ones, changes the history or
\* changes a field a model has
Kept ==
  /\ usedRelationNames \subseteq usedRelationNames'
  /\ Len(relations') >= Len(relations)
  /\ \A k \in 1..Len(relations) : relations'[k] = relations[k]
  /\ pc = "relations" =>
       /\ Len(models') = Len(models)
       /\ \A m \in 1..Len(models) :
            /\ models'[m].name = models[m].name
            /\ Len(models'[m].fields) >= Len(models[m].fields)
            /\ \A f \in 1..Len(models[m].fields) :
                 models'[m].fields[f] = models[m].fields[f]

AssignedInOrder ==
  /\ Kept
  /\ Len(relations') > Len(relations) => Assigned(relations'[Len(relations')])

\* the first foreign key of the history with its base identifier has the
\* base identifier
FirstKeepsBase ==
  \A k \in 1..Len(relations') :
    (\A j \in 1..(k - 1) : BaseOf(relations'[j]) # BaseOf(relations'[k]))
      => relations'[k].relationName = BaseOf(relations'[k])

\* C26, as stated: identifiers are assigned in the order of the tables and,
\* in a table, of its constraints; the used identifiers only grow; the first
\* foreign key with a base identifier keeps it, a later one gets the least
\* suffix from 2 on that is not used; an assigned identifier never changes
AssignedAsStated == [][AssignedInOrder /\ FirstKeepsBase]_vars

\* C26: identifiers are assigned in the order of the tables and, in a table,
\* of its constraints; the used identifiers only grow; a foreign key keeps
\* its base identifier if no foreign key before it was assigned that
\* identifier, and gets the least suffix from 2 on that is not used
\* otherwise; an assigned identifier never changes
AssignedOnce == [][AssignedInOrder]_vars

\* a foreign key got the suffix 3, after foreign keys with the base
\* identifier and with the suffix 2, which the history still has
ThirdSuffixed ==
  \E i, j, k \in 1..Len(relations) :
    /\ i < j /\ j < k
    /\ relations[i].relationName = BaseOf(relations[k])
    /\ relations[j].relationName = BaseOf(relations[k]) \o "_2"
    /\ relations[k].relationName = BaseOf(relations[k]) \o "_3"
    /\ {relations[n].relationName : n \in {i, j, k}} \subseteq usedRelationNames

(***************************************************************************)
(* The order of the fields and attributes of a model                       *)
(***************************************************************************)
\* where the text of model m, its closing brace, the line of its field f
\* and the line of its attribute a start in the output
ModelStart(m) == indexOf(prismaOutput, "model " \o models[m].name \o " {\n", 1)
ModelEnd(m) == indexOf(prismaOutput, "\n}", ModelStart(m))
FieldAt(m, f) ==
  indexOf(prismaOutput, "\n  " \o models[m].fields[f].name \o " ", ModelStart(m))
AttributeAt(m, a) ==
  indexOf(prismaOutput, "\n  " \o models[m].attributes[a] \o "\n", ModelStart(m))

isMapAttribute(attribute) == startsWith(attribute, "@@map(")

\* in the field list the fields of the columns come first, in the order of
\* the columns, and every field after them is a relation field
ScalarFieldsFirst(m) ==
  /\ Len(models[m].fields) >= Len(tables[m].columns)
  /\ \A f \in 1..Len(models[m].fields) :
       isRelationField(models[m].fields[f]) <=> f > Len(tables[m].columns)

\* in the text every field has a line in the model, the lines of the scalar
\* fields stand before the lines of the relation fields, and the attributes
\* of the model stand after every field, the table-name mapping last
ScalarLinesFirst(m) ==
  /\ ModelStart(m) > 0
  /\ \A f \in 1..Len(models[m].fields) :
       ModelStart(m) < FieldAt(m, f) /\ FieldAt(m, f) < ModelEnd(m)
  /\ \A f, g \in 1..Len(models[m].fields) :
       ~isRelationField(models[m].fields[f]) /\ isRelationField(models[m].fields[g])
         => FieldAt(m, f) < FieldAt(m, g)
  /\ \A a \in 1..Len(models[m].attributes) :
       /\ AttributeAt(m, a) < ModelEnd(m)
       /\ \A f \in 1..Len(models[m].fields) : FieldAt(m, f) < AttributeAt(m, a)
       /\ \A b \in 1..Len(models[m].attributes) :
            ~isMapAttribute(models[m].attributes[a])
            /\ isMapAttribute(models[m].attributes[b])
              => AttributeAt(m, a) < AttributeAt(m, b)

\* C27: in every model the scalar fields come before the relation fields, in
\* the field list after the second pass and in the text, and the attributes
\* of the model, index and unique ones before the table-name mapping, come
\* after every field
ScalarBeforeRelations ==
  Generated =>
    \A m \in 1..Len(models) : ScalarFieldsFirst(m) /\ ScalarLinesFirst(m)

\* a model with scalar fields, relation fields, an index and a mapping
AllSectionsWritten ==
  /\ Generated
  /\ \E m \in 1..Len(models) :
       /\ \E f \in 1..Len(models[m].fields) : isRelationField(models[m].fields[f])
       /\ \E f \in 1..Len(models[m].fields) : ~isRelationField(models[m].fields[f])
       /\ \E a \in 1..Len(models[m].attributes) :
            isMapAttribute(models[m].attributes[a])
       /\ \E a \in 1..Len(models[m].attributes) :
            startsWith(models[m].attributes[a], "@@index(")

(***************************************************************************)
(* Indexes and comments on what the parse result does not have             *)
(***************************************************************************)
HasColumn(table, columnName) ==
  \E c \in 1..Len(tables[table].columns) : tables[table].columns[c].name = columnName

\* the columns a CREATE INDEX statement lists
ListedColumns(indexMatch) ==
  SelectSeq(MapSeq(split(Capture(indexMatch, "columns"), ","), IndexColumn),
            LAMBDA col : Len(col) > 0)

\* a CREATE INDEX statement on a table the parse result does not have
IndexOnAbsentTable(indexMatch) ==
  indexMatch.ok /\ FindTable(tables, Capture(indexMatch, "table")) = 0

\* a CREATE INDEX statement on a table of the parse result that lists a
\* column the table does not have
IndexOnAbsentColumn(indexMatch) ==
  /\ indexMatch.ok
  /\ FindTable(tables, Capture(indexMatch, "table")) # 0
  /\ \E c \in 1..Len(ListedColumns(indexMatch)) :
       ~HasColumn(FindTable(tables, Capture(indexMatch, "table")),
                  ListedColumns(indexMatch)[c])

\* a COMMENT ON statement on a table, or on a column, that the parse result
\* does not have
CommentOnAbsent(tableCommentMatch, columnCommentMatch) ==
  IF tableCommentMatch.ok
  THEN FindTable(tables, Capture(tableCommentMatch, "table")) = 0
  ELSE /\ columnCommentMatch.ok
       /\ \/ FindTable(tables, Capture(columnCommentMatch, "table")) = 0
          \/ ~HasColumn(FindTable(tables, Capture(columnCommentMatch, "table")),
                        Capture(columnCommentMatch, "column"))

\* the statement the fourth pass is at is a CREATE INDEX statement
AtIndexStatement ==
  InPass("indexes") /\ IsIndexStatement(toUpperCase(trim(statements[si])))

AtCommentStatement ==
  InPass("comments") /\ startsWith(toUpperCase(trim(statements[si])), "COMMENT ON")

\* the steps of a CREATE INDEX statement on an absent table, and of a
\* COMMENT ON statement on an absent table or column, leave the tables as
\* they are
AbsentSkipped ==
  /\ AtIndexStatement
     /\ IndexOnAbsentTable(match(trim(statements[si]), IndexExpression))
       => tables' = tables
  /\ AtCommentStatement
     /\ CommentOnAbsent(match(trim(statements[si]), TableCommentExpression),
                        match(trim(statements[si]), ColumnCommentExpression))
       => tables' = tables

\* the step of a CREATE INDEX statement that lists an absent column leaves
\* the tables as they are
AbsentColumnSkipped ==
  AtIndexStatement
  /\ IndexOnAbsentColumn(match(trim(statements[si]), IndexExpression))
    => tables' = tables

\* every index of a table lists columns of the table, and the fields its
\* attribute lists are fields of the model
IndexedFieldsPresent ==
  \A t \in 1..Len(tables) :
    \A i \in 1..Len(tables[t].indexes) :
      \A c \in 1..Len(tables[t].indexes[i].columns) :
        /\ HasColumn(t, tables[t].indexes[i].columns[c])
        /\ Generated /\ includes(prismaOutput, IndexAttribute(tables[t].indexes[i]))
             => toCamelCase(tables[t].indexes[i].columns[c]) \in FieldNames(models[t])

\* C28: a CREATE INDEX or COMMENT ON statement that names a table or a
\* column the parse result does not have changes nothing: no index and no
\* comment is recorded, the tables are as before, and no index or unique
\* attribute of the output lists a field its model does not have
AbsentNamesIgnored ==
  [][AbsentSkipped /\ AbsentColumnSkipped]_vars /\ []IndexedFieldsPresent

\* the part that holds: statements on an absent table, and comments on an
\* absent column, change nothing
AbsentTablesIgnored == [][AbsentSkipped]_vars

\* an index that lists an absent column was recorded and is in the output
AbsentColumnIndexed ==
  /\ Generated
  /\ \E t \in 1..Len(tables) :
       \E i \in 1..Len(tables[t].indexes) :
         /\ \E c \in 1..Len(tables[t].indexes[i].columns) :
              ~HasColumn(t, tables[t].indexes[i].columns[c])
         /\ includes(prismaOutput, IndexAttribute(tables[t].indexes[i]))

(***************************************************************************)
(* The two sides of a relation                                             *)
(***************************************************************************)
\* the fields of the models, each by the position of its model and its own
FieldPositions ==
  {p \in (1..Len(models))
         \X (1..MaxOf(MapSeq(models, LAMBDA model : Len(model.fields)))) :
     p[2] <= Len(models[p[1]].fields)}

\* a forward field of an identifier: one with fields and references
isForwardOf(relationName, field) ==
  /\ ~field.isArray
  /\ \E a \in 1..Len(field.attributes) :
       startsWith(field.attributes[a],
                  "@relation(\"" \o relationName \o "\", fields: [")
       /\ includes(field.attributes[a], "], references: [")

\* a backward field of an identifier: an array with the identifier alone
isBackwardOf(relationName, field) ==
  /\ field.isArray
  /\ \E a \in 1..Len(field.attributes) :
       field.attributes[a] = "@relation(\"" \o relationName \o "\")"

ForwardSides(relationName) ==
  {p \in FieldPositions : isForwardOf(relationName, models[p[1]].fields[p[2]])}

BackwardSides(relationName) ==
  {p \in FieldPositions : isBackwardOf(relationName, models[p[1]].fields[p[2]])}

\* every identifier is on one forward and one backward field, and every
\* relation field is a field of an identifier and has the type of a model
Paired ==
  /\ \A relationName \in usedRelationNames :
       /\ Cardinality(ForwardSides(relationName)) = 1
       /\ Cardinality(BackwardSides(relationName)) = 1
  /\ \A p \in FieldPositions :
       isRelationField(models[p[1]].fields[p[2]]) =>
         /\ FindModel(models, models[p[1]].fields[p[2]].type) # 0
         /\ \E relationName \in usedRelationNames :
              \/ isForwardOf(relationName, models[p[1]].fields[p[2]])
              \/ isBackwardOf(relationName, models[p[1]].fields[p[2]])

\* C29: after generation every relation identifier is on exactly one forward
\* relation field, with fields and references, and on exactly one backward
\* array field; the type of every relation field is the name of a model of
\* the output; no relation field is without its counterpart
RelationsPaired == Generated => Paired

\* every foreign key of the history references a table that has a model
AllReferencedDeclared ==
  \A k \in 1..Len(relations) : relations[k].referencedModel # 0

\* the part that holds: the relations are paired when every referenced
\* table is declared
DeclaredRelationsPaired == Generated /\ AllReferencedDeclared => Paired

\* a foreign key to an undeclared table: a forward field whose type is not a
\* model, and no backward field
ForwardWithoutBackward ==
  /\ Generated
  /\ \E k \in 1..Len(relations) :
       /\ relations[k].referencedModel = 0
       /\ ForwardSides(relations[k].relationName) # {}
       /\ BackwardSides(relations[k].relationName) = {}
       /\ FindModel(models, relations[k].relationField[1].type) = 0

(***************************************************************************)
(* Columns without a DEFAULT clause                                        *)
(***************************************************************************)
\* the column definitions of the texts that have no DEFAULT clause
UndefaultedColumns ==
  {ColumnText(type, identity, key, null) :
     type \in IntegerTypes \cup SerialTypes \cup {"UUID"},
     identity \in IdentityClauses \cup {""},
     key \in KeyClauses, null \in NullClauses}
  \cup NamedDefaultColumns

\* the text converted is a table whose first column is this one
DefinitionConverted(columnDef) ==
  Generated /\ sql = Document(<<ItemsTable(columnDef)>>)

\* how often @default stands in the attributes of a field
DefaultCount(field) ==
  Cardinality({p \in 1..Len(join(field.attributes, " ")) :
                 LitAt(join(field.attributes, " "), p, "@default(")})

\* the only default of a column without a DEFAULT clause: that of a
\* SERIAL or BIGSERIAL primary key
SerialKeyDefault(column, field) ==
  /\ DefaultAttributes(field) # <<>> =>
       /\ column.isPrimaryKey
       /\ column.type \in {"SERIAL", "BIGSERIAL"}
       /\ DefaultAttributes(field) = <<"@id @default(autoincrement())">>

Undefaulted(column, field) ==
  column.defaultValue = "" /\ SerialKeyDefault(column, field)

AtMostOneDefault ==
  \A m \in 1..Len(models) :
    \A f \in 1..Len(models[m].fields) : DefaultCount(models[m].fields[f]) <= 1

\* C30: a column whose definition has no DEFAULT clause has no default value
\* in the parse result, and its field has no @default attribute but the
\* autoincrement one of a SERIAL or BIGSERIAL primary key; every field has at
\* most one @default attribute
NoDefaultWithoutClause ==
  /\ \A columnDef \in UndefaultedColumns :
       DefinitionConverted(columnDef) =>
         /\ Undefaulted(tables[1].columns[1], models[1].fields[1])
         /\ Undefaulted(tables[1].columns[2], models[1].fields[2])
  /\ Generated => AtMostOneDefault

\* the part that holds: a column without the word DEFAULT in its definition
\* has no default, and no field has two
NoDefaultWithoutWord ==
  /\ \A columnDef \in UndefaultedColumns :
       DefinitionConverted(columnDef) /\ ~includes(toUpperCase(columnDef), "DEFAULT")
         => /\ Undefaulted(tables[1].columns[1], models[1].fields[1])
            /\ Undefaulted(tables[1].columns[2], models[1].fields[2])
  /\ Generated => AtMostOneDefault

\* a column named is_default, without a DEFAULT clause, got a default
NameTakenForClause ==
  /\ DefinitionConverted("is_default BOOLEAN NOT NULL")
  /\ tables[1].columns[1].defaultValue # ""
  /\ DefaultAttributes(models[1].fields[1]) # <<>>

====
